---- MODULE Spec2Model ----
(***************************************************************************)
(* Verification model of the rfs-gsplat-render crate (3D Gaussian          *)
(* splatting renderer for Bevy).                                           *)
(*                                                                         *)
(* Part 1: temporal coherence (temporal_coherence.rs) and the render       *)
(*         cache / render node that consume it (gaussian_point_cloud.rs).  *)
(* Part 2: per-splat selection state (gaussian_splats.rs) and the          *)
(*         application of pick results (gaussian_point_cloud.rs).          *)
(*                                                                         *)
(* Floating-point quantities are scaled to integers:                       *)
(*   - positions live on one axis, in units of 0.005 world units;          *)
(*   - dot products are scaled by 10000 (1.0 = 10000).                     *)
(* Directions are indices into a fan of unit vectors; Cos gives the        *)
(* scaled dot product of two vectors that are k fan steps apart.           *)
(***************************************************************************)
EXTENDS Integers, Sequences, FiniteSets, TLC

VARIABLES
    \* ---- main world: temporal coherence -------------------------------
    cache,          \* TemporalCoherenceCache resource (main world)
    config,         \* TemporalCoherenceConfig read by the last update
    camera,         \* camera pose read by the last update, or NoCamera
    call,           \* the last update's call of should_skip_sorting: the value
                    \* returned and the branch taken ("no_call": not called)
    resort_pos,     \* camera position of the most recent call that returned false
    \* ---- render world -------------------------------------------------
    pc,             \* stage of the frame that runs next
    temporal_cache, \* extracted clone of cache (render world)
    viewport,       \* clamped viewport size of the extracted view
    render_cache,   \* GaussianSplatRenderCache resource
    cache_written,  \* a splat pass wrote the cache texture since it was last
                    \* recreated or invalidated
    drawable,       \* render entities with buffers, bind groups and pipeline id
    preview_ready,  \* training preview image, bind group and pipeline are ready
    blit_ready,     \* cache blit pipeline is compiled
    cull_ready,     \* the view's cull pipeline is compiled
    node,           \* what GaussianSplatNode::run recorded this frame
    \* ---- selection state ----------------------------------------------
    sel,            \* SplatSelectionState component
    last_op,        \* name of the last selection operation
    last_pick,      \* op and hit set of the last pick result handled, and whether it was applied
    panicked,       \* an arithmetic overflow check aborted the process
    overflow_checks, \* the build checks integer overflow (debug) or wraps (release)
    \* ---- compute picker -----------------------------------------------
    picker_request,     \* PickerRequest resource (main world)
    picker_pending,     \* PickerPendingReadback: the data behind its Arc
    picker_result,      \* PickerResult resource (main world)
    extracted_request,  \* ExtractedPickerRequest resource (render world)
    render_state,       \* RenderPickerState resource (render world)
    selection_capacity, \* capacity of SelectionComputeResources, 0 without them
    ppc,                \* main-world picker system that runs next
    render_pc,          \* render-world picker stage that runs next
    picks,              \* pick requests issued so far
    mapping,            \* outcome of map_async in the last execute_selection_compute of the request
    request_at_finish,  \* PickerRequest.active when the last compute handed its result over
    gpu,                \* GaussianSplatGpuBuffers of the entity and the contents of its sort buffers
    gpu_pc,             \* command of the frame's encoder that the GPU runs next
    radix_pipelines,    \* RadixSortPipelines that the PipelineCache has compiled
    sort_in,            \* keys, values and count that the current radix sort started from
    entity,             \* the render entity: extracted splats, update marker, bind groups
    main_world,         \* the main-world entity: BuffersNeedUpdate, and whether its splats await an upload
    \* ---- GaussianSplats ------------------------------------------------
    new_args,           \* lengths of the five vectors passed to GaussianSplats::new
    splats,             \* what GaussianSplats::new returned
    \* ---- pick pass ---------------------------------------------------
    pick_request,       \* PickRequest resource (main world)
    pick_extracted,     \* ExtractedPickRequest resource (render world)
    pick_target,        \* PickRenderTarget resource: state, pick texture, staging buffer
    pick_pending,       \* PickPendingReadback: the data behind its Arc
    pick_result,        \* PickResult resource (main world)
    pick_pc             \* systems that handle the pick pass next: main, render

tc_vars == <<cache, config, camera, call, resort_pos>>
rw_vars == <<pc, temporal_cache, viewport, render_cache, cache_written,
             drawable, preview_ready, blit_ready, cull_ready, node>>
sel_vars == <<sel, last_op, last_pick, panicked, overflow_checks>>
pk_vars == <<picker_request, picker_pending, picker_result, extracted_request,
            render_state, selection_capacity, ppc, render_pc, picks, mapping, request_at_finish>>
gs_vars == <<new_args, splats>>
pp_vars == <<pick_request, pick_extracted, pick_target, pick_pending, pick_result, pick_pc>>
gpu_vars == <<gpu, gpu_pc, radix_pipelines, sort_in, entity, main_world, gs_vars, pp_vars>>
vars == <<cache, config, camera, call, resort_pos,
          pc, temporal_cache, viewport, render_cache, cache_written,
          drawable, preview_ready, blit_ready, cull_ready, node,
          sel, last_op, last_pick, panicked, overflow_checks, pk_vars, gpu_vars>>

(***************************************************************************)
(* Bounds of the model                                                     *)
(***************************************************************************)
MaxPos == 3          \* camera positions 0..MaxPos (units of 0.005)
MaxFrames == 5       \* frames modelled (frame_count is a u64 in the code)
MaxSkip == 2         \* largest max_skip_frames among the configurations
ForceInterval == 3   \* the non-zero force_resort_interval among the configurations

(***************************************************************************)
(* Program constants                                                       *)
(***************************************************************************)
PositionThreshold == 2       \* 0.01 world units
DirectionThreshold == 9999   \* 0.9999

Cos == <<10000, 9999, 9990>>
ZeroDir == -1                \* Vec3::ZERO used as a direction (Default)
Positions == 0..MaxPos
\* no Camera3d entity: cameras.iter().next() is None
NoCamera == [pos |-> -1, dir |-> ZeroDir, up |-> ZeroDir]

Abs(x) == IF x < 0 THEN -x ELSE x

\* Vec3::distance on the modelled axis
Distance(a, b) == Abs(a - b)

\* Vec3::dot of two directions of the fan (0 when either is Vec3::ZERO)
Dot(a, b) == IF a = ZeroDir \/ b = ZeroDir THEN 0 ELSE Cos[Abs(a - b) + 1]

\* orientations: forward turned by 0, 1 or 2 fan steps, or up rolled by 2
Orientations == {<<0, 0>>, <<1, 0>>, <<2, 0>>, <<0, 2>>}
Poses == {[pos |-> p, dir |-> o[1], up |-> o[2]] : p \in Positions, o \in Orientations}

\* TemporalCoherenceConfig::default
DefaultConfig == [enabled |-> TRUE,
                  position_threshold |-> PositionThreshold,
                  direction_threshold |-> DirectionThreshold,
                  max_skip_frames |-> MaxSkip,
                  force_resort_interval |-> 0]

\* TemporalCoherenceConfig::disabled
DisabledConfig == [DefaultConfig EXCEPT !.enabled = FALSE]

\* the configurations the TemporalCoherenceConfig component takes
Configs == {DefaultConfig,
            DisabledConfig,
            [DefaultConfig EXCEPT !.max_skip_frames = 1],
            [DefaultConfig EXCEPT !.force_resort_interval = ForceInterval]}

\* TemporalCoherenceCache::default
DefaultCache == [last_camera_pos |-> 0,
                 last_camera_dir |-> ZeroDir,
                 last_camera_up |-> ZeroDir,
                 sorting_skipped |-> FALSE,
                 skip_count |-> 0,
                 frame_count |-> 0,
                 data_updated_this_frame |-> FALSE,
                 render_skip_count |-> 0]

(***************************************************************************)
(* temporal_coherence.rs                                                   *)
(***************************************************************************)

\* the assignments shared by every branch that takes a new reference pose
TakePose(c, cam) == [c EXCEPT !.last_camera_pos = cam.pos,
                              !.last_camera_dir = cam.dir,
                              !.last_camera_up = cam.up]

ResetSkip(c) == [c EXCEPT !.sorting_skipped = FALSE, !.skip_count = 0]

\* variant of camera_moved whose position test is inclusive: a camera exactly
\* position_threshold away from the reference pose counts as moved
camera_moved_inclusive(c, cfg, cam) ==
    \/ Distance(cam.pos, c.last_camera_pos) >= cfg.position_threshold
    \/ Dot(cam.dir, c.last_camera_dir) < cfg.direction_threshold
    \/ Dot(cam.up, c.last_camera_up) < cfg.direction_threshold

\* let camera_moved = pos_delta > position_threshold || dir_dot < thr || up_dot < thr
camera_moved(c, cfg, cam) ==
    \/ Distance(cam.pos, c.last_camera_pos) > cfg.position_threshold
    \/ Dot(cam.dir, c.last_camera_dir) < cfg.direction_threshold
    \/ Dot(cam.up, c.last_camera_up) < cfg.direction_threshold

\* variant of force_resort that tests the frame counter before its increment
force_resort_before_increment(c, cfg) ==
    /\ cfg.force_resort_interval > 0
    /\ (c.frame_count - 1) % cfg.force_resort_interval = 0

\* the force-resort test, on the already incremented frame counter
force_resort(c, cfg) ==
    /\ cfg.force_resort_interval > 0
    /\ c.frame_count % cfg.force_resort_interval = 0

\* variant of is_disabled that never takes the disabled branch
is_disabled_ignored(cfg) == FALSE

\* if !config.enabled
is_disabled(cfg) == ~cfg.enabled

\* variant of data_updated that never takes the data-update branch
data_updated_ignored(c) == FALSE

\* if cache.data_updated_this_frame
data_updated(c) == c.data_updated_this_frame

\* variant of skip_limit_reached that allows one more skipped frame
skip_limit_reached_late(c, cfg) == c.skip_count > cfg.max_skip_frames

\* if cache.skip_count >= config.max_skip_frames
skip_limit_reached(c, cfg) == c.skip_count >= cfg.max_skip_frames

\* should_skip_sorting: the cache after the call, the value returned and the
\* branch that returned it
should_skip_sorting(c0, cfg, cam) ==
    IF c0.frame_count = 0
    THEN [cache |-> [ResetSkip(TakePose(c0, cam)) EXCEPT !.frame_count = 1],
          ret |-> FALSE, branch |-> "first"]
    ELSE LET c == [c0 EXCEPT !.frame_count = c0.frame_count + 1] IN
         IF is_disabled(cfg)
         THEN [cache |-> ResetSkip(c), ret |-> FALSE, branch |-> "disabled"]
         ELSE IF data_updated(c)
         THEN [cache |-> ResetSkip(TakePose(c, cam)), ret |-> FALSE, branch |-> "data"]
         ELSE IF force_resort(c, cfg)
         THEN [cache |-> ResetSkip(TakePose(c, cam)), ret |-> FALSE, branch |-> "force"]
         ELSE IF skip_limit_reached(c, cfg)
         THEN [cache |-> ResetSkip(TakePose(c, cam)), ret |-> FALSE, branch |-> "limit"]
         ELSE IF camera_moved(c, cfg, cam)
         THEN [cache |-> ResetSkip(TakePose(c, cam)), ret |-> FALSE, branch |-> "moved"]
         ELSE [cache |-> [c EXCEPT !.sorting_skipped = TRUE,
                                   !.skip_count = c.skip_count + 1],
               ret |-> TRUE, branch |-> "static"]

\* should_skip_render (defined by the crate, called by none of its systems)
should_skip_render(c, cfg, cam) ==
    IF c.frame_count = 0 THEN FALSE
    ELSE IF ~cfg.enabled THEN FALSE
    ELSE IF c.data_updated_this_frame THEN FALSE
    ELSE IF c.render_skip_count >= cfg.max_skip_frames * 2 THEN FALSE
    ELSE /\ Distance(cam.pos, c.last_camera_pos) < cfg.position_threshold
         /\ Dot(cam.dir, c.last_camera_dir) > cfg.direction_threshold
         /\ Dot(cam.up, c.last_camera_up) > cfg.direction_threshold


(***************************************************************************)
(* gaussian_point_cloud.rs: update_temporal_coherence_cache (PostUpdate)   *)
(***************************************************************************)
NoCall == [ret |-> FALSE, branch |-> "no_call"]

\* cache.data_updated_this_frame = data_updated || transform_changed, and the
\* reset of render_skip_count that follows it
SetDataUpdated(c, upd) ==
    [c EXCEPT !.data_updated_this_frame = upd,
              !.render_skip_count = IF upd THEN 0 ELSE @]

\* P: the poses the camera may take, C: the configurations the component may hold
update_temporal_coherence_cache(P, C) ==
    /\ cache.frame_count < MaxFrames
    /\ \E upd \in BOOLEAN, cam \in P \cup {NoCamera}, cfg \in C :
        LET c1 == SetDataUpdated(cache, upd) IN
        IF cam = NoCamera
        THEN \* no Camera3d: return before the config is read
             /\ cache' = c1
             /\ camera' = NoCamera
             /\ call' = NoCall
             /\ UNCHANGED <<config, resort_pos>>
        ELSE LET r == should_skip_sorting(c1, cfg, cam) IN
             /\ cache' = r.cache
             /\ camera' = cam
             /\ config' = cfg
             /\ call' = [ret |-> r.ret, branch |-> r.branch]
             /\ resort_pos' = IF r.ret THEN resort_pos ELSE cam.pos

(***************************************************************************)
(* Render world: extract, prepare_render_cache, GaussianSplatNode::run     *)
(***************************************************************************)
\* no extracted view: views.iter().next() is None
NoView == [w |-> -1, h |-> -1]
Viewports == {[w |-> 0, h |-> 0], [w |-> 800, h |-> 600], [w |-> 801, h |-> 600]}

Entities == {"e1", "e2"}
\* the render entities that carry the TrainingMode marker
TrainingMode == {"e1"}

\* GaussianSplatRenderCache::default
DefaultRenderCache == [texture |-> FALSE, view |-> FALSE, bind_group |-> FALSE,
                       width |-> 0, height |-> 0, valid |-> FALSE,
                       format |-> "Rgba8UnormSrgb"]

\* GaussianSplatRenderCache::ensure_texture, called with Some(layout)
ensure_texture(rc, width, height, format) ==
    IF rc.texture /\ rc.width = width /\ rc.height = height /\ rc.format = format
    THEN rc
    ELSE [texture |-> TRUE, view |-> TRUE, bind_group |-> TRUE,
          width |-> width, height |-> height, valid |-> FALSE,
          format |-> format]

mark_valid(rc) == [rc EXCEPT !.valid = TRUE]

invalidate(rc) == [rc EXCEPT !.valid = FALSE]

can_use(rc) == rc.valid /\ rc.texture /\ rc.view

\* the buffers of an entity that the node clears before the cull and the sort
SortBuffers == {"depth_keys", "visible_indices", "keys_temp", "values_temp",
                "indirect_buffer", "global_histogram", "partition_histogram"}

IdleNode == [path |-> "idle", entities |-> {}, skip_sorting |-> FALSE,
             cull |-> FALSE, sort |-> FALSE, cleared |-> {},
             cache_pass |-> FALSE, blit |-> FALSE]

\* ExtractResourcePlugin<TemporalCoherenceCache> and the extraction of the view
Extract ==
    /\ pc = "extract"
    /\ temporal_cache' = cache
    /\ IF camera = NoCamera
       THEN viewport' = NoView
       ELSE viewport' \in Viewports
    /\ pc' = "prepare"
    /\ UNCHANGED <<render_cache, cache_written, drawable, preview_ready,
                   blit_ready, cull_ready, node>>
    /\ UNCHANGED tc_vars
    /\ UNCHANGED sel_vars
    /\ UNCHANGED <<pk_vars, gpu_vars>>

\* the cache after prepare_render_cache for a view of non-zero size
prepare_render_cache(rc, tc, vp) ==
    LET size_changed == rc.width # vp.w \/ rc.height # vp.h
        rc1 == ensure_texture(rc, vp.w, vp.h, "Rgba8Unorm")
    IN  IF tc.data_updated_this_frame \/ size_changed
        THEN invalidate(rc1)
        ELSE IF ~rc1.valid /\ tc.frame_count > 0
        THEN mark_valid(rc1)
        ELSE rc1

PrepareRenderCache ==
    /\ pc = "prepare"
    /\ IF viewport = NoView
       THEN UNCHANGED <<render_cache, cache_written>>
       ELSE IF viewport.w = 0 \/ viewport.h = 0
       THEN UNCHANGED <<render_cache, cache_written>>
       ELSE LET recreated == ensure_texture(render_cache, viewport.w, viewport.h,
                                            "Rgba8Unorm") # render_cache
                invalidated == \/ temporal_cache.data_updated_this_frame
                               \/ render_cache.width # viewport.w
                               \/ render_cache.height # viewport.h
            IN  /\ render_cache' = prepare_render_cache(render_cache, temporal_cache,
                                                        viewport)
                /\ cache_written' = IF recreated \/ invalidated
                                    THEN FALSE ELSE cache_written
    /\ pc' = "render"
    /\ UNCHANGED <<temporal_cache, viewport, drawable, preview_ready,
                   blit_ready, cull_ready, node>>
    /\ UNCHANGED tc_vars
    /\ UNCHANGED sel_vars
    /\ UNCHANGED <<pk_vars, gpu_vars>>


\* The Prepare / PrepareResources / PrepareBindGroups systems that decide what
\* the node finds: which entities carry buffers, bind groups and a pipeline
\* id, whether a training preview is ready, and which pipelines the pipeline
\* cache has finished compiling (a compiled pipeline stays compiled).
PrepareEntities ==
    /\ pc = "render"
    /\ drawable' \in SUBSET Entities
    /\ preview_ready' \in BOOLEAN
    /\ blit_ready' \in {blit_ready, TRUE}
    /\ cull_ready' \in {cull_ready, TRUE}
    /\ pc' = "node"
    /\ UNCHANGED <<temporal_cache, viewport, render_cache, cache_written, node>>
    /\ UNCHANGED tc_vars
    /\ UNCHANGED sel_vars
    /\ UNCHANGED <<pk_vars, gpu_vars>>

\* variant of all_training_mode satisfied by a single training entity
any_training_mode(es) == \E e \in es : e \in TrainingMode

\* let all_training_mode = entities_to_render.iter().all(|(.., t)| *t)
all_training_mode(es) == \A e \in es : e \in TrainingMode

\* let skip_sorting = !data_updated_this_frame && sorting_skipped
skip_sorting(tc) == ~tc.data_updated_this_frame /\ tc.sorting_skipped

\* let can_use_cache = all_training_mode && skip_sorting && render_cache.can_use()
can_use_cache(es, tc, rc) ==
    all_training_mode(es) /\ skip_sorting(tc) /\ can_use(rc)

\* GaussianSplatNode::run that dispatches the cull whenever its pipeline is
\* compiled
node_run_ignores_skip(es, tc, rc, vp, preview, blit_pipe, cull_pipe) ==
    IF preview
    THEN [IdleNode EXCEPT !.path = "preview", !.entities = es]
    ELSE IF es = {}
    THEN [IdleNode EXCEPT !.path = "no_entities"]
    ELSE IF can_use_cache(es, tc, rc) /\ rc.bind_group /\ blit_pipe
    THEN [IdleNode EXCEPT !.path = "cache_blit", !.entities = es,
                          !.skip_sorting = skip_sorting(tc),
                          !.blit = (vp.w > 0 /\ vp.h > 0)]
    ELSE IF vp.w = 0 \/ vp.h = 0
    THEN [IdleNode EXCEPT !.path = "zero_viewport", !.entities = es,
                          !.skip_sorting = skip_sorting(tc)]
    ELSE [path |-> "render", entities |-> es,
          skip_sorting |-> skip_sorting(tc),
          cull |-> cull_pipe,
          sort |-> cull_pipe,
          cleared |-> IF cull_pipe THEN SortBuffers ELSE {},
          cache_pass |-> rc.view,
          blit |-> (rc.bind_group /\ blit_pipe)]

\* what GaussianSplatNode::run records for the view
node_run(es, tc, rc, vp, preview, blit_pipe, cull_pipe) ==
    IF preview
    THEN [IdleNode EXCEPT !.path = "preview", !.entities = es]
    ELSE IF es = {}
    THEN [IdleNode EXCEPT !.path = "no_entities"]
    ELSE IF can_use_cache(es, tc, rc) /\ rc.bind_group /\ blit_pipe
    THEN [IdleNode EXCEPT !.path = "cache_blit", !.entities = es,
                          !.skip_sorting = skip_sorting(tc),
                          !.blit = (vp.w > 0 /\ vp.h > 0)]
    ELSE IF vp.w = 0 \/ vp.h = 0
    THEN [IdleNode EXCEPT !.path = "zero_viewport", !.entities = es,
                          !.skip_sorting = skip_sorting(tc)]
    ELSE LET cull_executed == ~skip_sorting(tc) /\ cull_pipe IN
         [path |-> "render", entities |-> es,
          skip_sorting |-> skip_sorting(tc),
          cull |-> cull_executed,
          sort |-> cull_executed,
          cleared |-> IF cull_executed THEN SortBuffers ELSE {},
          cache_pass |-> rc.view,
          blit |-> (rc.bind_group /\ blit_pipe)]

NodeRun ==
    /\ pc = "node"
    /\ IF viewport = NoView
       THEN /\ node' = [IdleNode EXCEPT !.path = "no_view"]
            /\ UNCHANGED cache_written
       ELSE /\ node' = node_run(drawable, temporal_cache, render_cache, viewport,
                                preview_ready, blit_ready, cull_ready)
            /\ cache_written' = (cache_written \/ node'.cache_pass)
    /\ pc' = "main"
    /\ UNCHANGED <<temporal_cache, viewport, render_cache, drawable,
                   preview_ready, blit_ready, cull_ready>>
    /\ UNCHANGED tc_vars
    /\ UNCHANGED sel_vars
    /\ UNCHANGED <<pk_vars, gpu_vars>>

(***************************************************************************)
(* gaussian_splats.rs: GaussianSplats                                      *)
(***************************************************************************)
MaxVec == 2         \* longest vector passed to GaussianSplats::new
MaxStore == 4       \* most splats a store grows to

Fields == {"means", "rotations", "log_scales", "sh_coeffs", "raw_opacities"}
\* the lengths of the five vectors of a call
Args == [Fields -> 0..MaxVec]
NoArgs == [f \in Fields |-> 0]
\* no store, and the outcome of a failed assert_eq!
NoSplats == [some |-> FALSE, panic |-> FALSE]
Panic == [some |-> FALSE, panic |-> TRUE]

\* GaussianSplats::new that compares only the rotations with the means
new_checks_rotations(a) ==
    IF a.means # a.rotations THEN Panic
    ELSE [some |-> TRUE, panic |-> FALSE, len |-> a.means, stored_capacity |-> a.means,
          antialiased |-> FALSE, op |-> "new"]

\* GaussianSplats::new on vectors of the lengths a: the four assert_eq! and
\* the store, of which the lengths are kept
new(a) ==
    IF a.means # a.rotations THEN Panic
    ELSE IF a.means # a.log_scales THEN Panic
    ELSE IF a.means # a.sh_coeffs THEN Panic
    ELSE IF a.means # a.raw_opacities THEN Panic
    ELSE [some |-> TRUE, panic |-> FALSE, len |-> a.means, stored_capacity |-> a.means,
          antialiased |-> FALSE, op |-> "new"]

\* The call of GaussianSplats::new
New ==
    /\ splats = NoSplats
    /\ splats' = new(new_args)
    /\ UNCHANGED new_args
    /\ UNCHANGED <<tc_vars, rw_vars, sel_vars, pk_vars>>
    /\ UNCHANGED <<gpu, gpu_pc, radix_pipelines, sort_in, entity, main_world, pp_vars>>

\* The store keeps the length of its vectors (len), stored_capacity,
\* antialiased, and the name of the last method called on it (op).
\* the stores passed as other to merge and update_data
Others == [len : 0..MaxVec, antialiased : BOOLEAN]

\* GaussianSplats::capacity: self.stored_capacity.max(self.means.len())
capacity(s) == IF s.stored_capacity >= s.len THEN s.stored_capacity ELSE s.len

\* GaussianSplats::with_capacity(capacity)
WithCapacity ==
    /\ splats = NoSplats
    /\ \E n \in 0..MaxVec :
          splats' = [some |-> TRUE, panic |-> FALSE, len |-> 0, stored_capacity |-> n,
                     antialiased |-> FALSE, op |-> "with_capacity"]
    /\ UNCHANGED new_args
    /\ UNCHANGED <<tc_vars, rw_vars, sel_vars, pk_vars>>
    /\ UNCHANGED <<gpu, gpu_pc, radix_pipelines, sort_in, entity, main_world, pp_vars>>

\* GaussianSplats::with_antialiased
WithAntialiased ==
    /\ splats.some
    /\ \E antialiased \in BOOLEAN :
          splats' = [splats EXCEPT !.antialiased = antialiased, !.op = "with_antialiased"]
    /\ UNCHANGED new_args
    /\ UNCHANGED <<tc_vars, rw_vars, sel_vars, pk_vars>>
    /\ UNCHANGED <<gpu, gpu_pc, radix_pipelines, sort_in, entity, main_world, pp_vars>>

\* GaussianSplats::merge: the vectors are extended by those of other
Merge ==
    /\ splats.some
    /\ \E other \in Others :
          /\ splats.len + other.len <= MaxStore
          /\ splats' = [splats EXCEPT !.len = @ + other.len,
                                      !.antialiased = @ \/ other.antialiased,
                                      !.op = "merge"]
    /\ UNCHANGED new_args
    /\ UNCHANGED <<tc_vars, rw_vars, sel_vars, pk_vars>>
    /\ UNCHANGED <<gpu, gpu_pc, radix_pipelines, sort_in, entity, main_world, pp_vars>>

\* GaussianSplats::update_data: the vectors are cloned from those of other
UpdateData ==
    /\ splats.some
    /\ \E other \in Others :
          splats' = [splats EXCEPT !.len = other.len,
                                  !.antialiased = other.antialiased,
                                  !.op = "update_data"]
    /\ UNCHANGED new_args
    /\ UNCHANGED <<tc_vars, rw_vars, sel_vars, pk_vars>>
    /\ UNCHANGED <<gpu, gpu_pc, radix_pipelines, sort_in, entity, main_world, pp_vars>>

\* GaussianSplats::duplicate_selected: a copy of every selected splat whose
\* index is below the length is pushed
DuplicateSelected ==
    /\ splats.some
    /\ \E selected_indices \in SUBSET (0..(MaxStore - 1)) :
          LET pushed == Cardinality({idx \in selected_indices : idx < splats.len})
          IN /\ splats.len + pushed <= MaxStore
             /\ splats' = [splats EXCEPT !.len = @ + pushed, !.op = "duplicate_selected"]
    /\ UNCHANGED new_args
    /\ UNCHANGED <<tc_vars, rw_vars, sel_vars, pk_vars>>
    /\ UNCHANGED <<gpu, gpu_pc, radix_pipelines, sort_in, entity, main_world, pp_vars>>

\* GaussianSplats::clear: the five vectors are cleared
ClearSplats ==
    /\ splats.some
    /\ splats' = [splats EXCEPT !.len = 0, !.op = "clear"]
    /\ UNCHANGED new_args
    /\ UNCHANGED <<tc_vars, rw_vars, sel_vars, pk_vars>>
    /\ UNCHANGED <<gpu, gpu_pc, radix_pipelines, sort_in, entity, main_world, pp_vars>>

(***************************************************************************)
(* gaussian_splats.rs: SplatSelectionState                                 *)
(***************************************************************************)
NumSplats == 2      \* splats of the entity, indices 0..NumSplats-1
MaxLen == 2         \* longest index list passed to select/deselect/set_selection
MaxCount == 3       \* cap of num_locked and num_deleted (u32 in the code)

\* splat_state bit flags
NORMAL == 0
SELECTED == 1
LOCKED == 2
DELETED == 4

\* state & b != 0, for a single flag b
HasBit(state, b) == (state \div b) % 2 = 1
\* state |= b
SetBit(state, b) == IF HasBit(state, b) THEN state ELSE state + b
\* state &= !b
ClearBit(state, b) == IF HasBit(state, b) THEN state - b ELSE state
\* state ^= b
ToggleBit(state, b) == IF HasBit(state, b) THEN state - b ELSE state + b
\* state & (LOCKED | DELETED) == 0
Editable(state) == ~HasBit(state, LOCKED) /\ ~HasBit(state, DELETED)

SplatIds == 0..(NumSplats - 1)
\* index lists: any order, duplicates, and NumSplats as the out-of-range index
IndexLists == UNION {[1..n -> 0..NumSplats] : n \in 0..MaxLen}
\* the number of splats of s whose state has flag b
CountBit(s, b) == Cardinality({i \in DOMAIN s.states : HasBit(s.states[i], b)})

\* SplatSelectionState::new(NumSplats)
NewSelection == [states |-> [i \in SplatIds |-> NORMAL],
                 num_selected |-> 0, num_locked |-> 0, num_deleted |-> 0,
                 dirty |-> TRUE]

\* A u32 counter is held as the integer of least magnitude congruent to it
\* modulo 2^32, so 0 - 1 wrapped (u32::MAX) is held as -1.
\* The body of the loop of select: states.get_mut(idx) is None out of range
select_one(s, idx) ==
    IF idx \in DOMAIN s.states /\ ~HasBit(s.states[idx], SELECTED)
    THEN [s EXCEPT !.states[idx] = SetBit(@, SELECTED),
                   !.num_selected = @ + 1]
    ELSE s

RECURSIVE select_loop(_, _)
select_loop(s, indices) ==
    IF indices = <<>> THEN s
    ELSE select_loop(select_one(s, Head(indices)), Tail(indices))

select(s, indices) == [select_loop(s, indices) EXCEPT !.dirty = TRUE]

\* The body of the loop of deselect on r = [s, panic]. `num_selected -= 1` at
\* 0 panics when the build checks overflow (after the bit was cleared), and
\* wraps otherwise.
deselect_one(r, idx, checks) ==
    IF r.panic THEN r
    ELSE IF idx \in DOMAIN r.s.states /\ HasBit(r.s.states[idx], SELECTED)
    THEN LET cleared == [r.s EXCEPT !.states[idx] = ClearBit(@, SELECTED)] IN
         IF r.s.num_selected = 0 /\ checks
         THEN [s |-> cleared, panic |-> TRUE]
         ELSE [s |-> [cleared EXCEPT !.num_selected = @ - 1], panic |-> FALSE]
    ELSE r

RECURSIVE deselect_loop(_, _, _)
deselect_loop(r, indices, checks) ==
    IF indices = <<>> THEN r
    ELSE deselect_loop(deselect_one(r, Head(indices), checks), Tail(indices), checks)

deselect(s, indices, checks) ==
    LET r == deselect_loop([s |-> s, panic |-> FALSE], indices, checks) IN
    IF r.panic THEN r ELSE [r EXCEPT !.s.dirty = TRUE]

deselect_all(s) ==
    [s EXCEPT !.states = [i \in DOMAIN s.states |-> ClearBit(s.states[i], SELECTED)],
              !.num_selected = 0,
              !.dirty = TRUE]

set_selection(s, indices) ==
    select([s EXCEPT !.states = [i \in DOMAIN s.states |-> ClearBit(s.states[i], SELECTED)],
                     !.num_selected = 0],
           indices)

select_all(s) ==
    LET st == [i \in DOMAIN s.states |->
                 IF Editable(s.states[i]) THEN SetBit(s.states[i], SELECTED)
                 ELSE s.states[i]]
    IN [s EXCEPT !.states = st,
                 !.num_selected = Cardinality({i \in DOMAIN st : Editable(s.states[i])}),
                 !.dirty = TRUE]

invert_selection(s) ==
    LET st == [i \in DOMAIN s.states |->
                 IF Editable(s.states[i]) THEN ToggleBit(s.states[i], SELECTED)
                 ELSE s.states[i]]
    IN [s EXCEPT !.states = st,
                 !.num_selected = Cardinality({i \in DOMAIN st :
                                     Editable(s.states[i]) /\ HasBit(st[i], SELECTED)}),
                 !.dirty = TRUE]

\* delete_selected that leaves the SELECTED bit of what it deletes
delete_selected_keeps_selected(s) ==
    [s EXCEPT !.states = [i \in DOMAIN s.states |->
                            IF HasBit(s.states[i], SELECTED)
                            THEN SetBit(s.states[i], DELETED)
                            ELSE s.states[i]],
              !.num_deleted = @ + CountBit(s, SELECTED),
              !.num_selected = 0,
              !.dirty = TRUE]

delete_selected(s) ==
    [s EXCEPT !.states = [i \in DOMAIN s.states |->
                            IF HasBit(s.states[i], SELECTED)
                            THEN ClearBit(SetBit(s.states[i], DELETED), SELECTED)
                            ELSE s.states[i]],
              !.num_deleted = @ + CountBit(s, SELECTED),
              !.num_selected = 0,
              !.dirty = TRUE]

\* undelete_all that leaves num_deleted
undelete_all_keeps_count(s) ==
    [s EXCEPT !.states = [i \in DOMAIN s.states |-> ClearBit(s.states[i], DELETED)],
              !.dirty = TRUE]

undelete_all(s) ==
    [s EXCEPT !.states = [i \in DOMAIN s.states |-> ClearBit(s.states[i], DELETED)],
              !.num_deleted = 0,
              !.dirty = TRUE]

lock_selected(s) ==
    [s EXCEPT !.states = [i \in DOMAIN s.states |->
                            IF HasBit(s.states[i], SELECTED)
                            THEN ClearBit(SetBit(s.states[i], LOCKED), SELECTED)
                            ELSE s.states[i]],
              !.num_locked = @ + CountBit(s, SELECTED),
              !.num_selected = 0,
              !.dirty = TRUE]

unlock_all(s) ==
    [s EXCEPT !.states = [i \in DOMAIN s.states |-> ClearBit(s.states[i], LOCKED)],
              !.num_locked = 0,
              !.dirty = TRUE]

recount(s) ==
    [s EXCEPT !.num_selected = CountBit(s, SELECTED),
              !.num_locked = CountBit(s, LOCKED),
              !.num_deleted = CountBit(s, DELETED)]

(***************************************************************************)
(* gaussian_point_cloud.rs: poll_pick_results, apply_pick_results          *)
(***************************************************************************)
PickOps == {"Set", "Add", "Remove"}
\* what poll_pick_results can decode: a set of distinct indices, none of them 0
PickedIndices == 1..NumSplats

RECURSIVE SeqOf(_)
\* the elements of a set of indices in some order (HashSet::into_iter)
SeqOf(S) == IF S = {} THEN <<>>
            ELSE LET x == CHOOSE y \in S : TRUE IN <<x>> \o SeqOf(S \ {x})

\* apply_pick_results on the target entity's state: [s, panic]
apply_pick_results(s, op, splat_indices, checks) ==
    LET valid_indices == SeqOf({idx \in splat_indices : idx < NumSplats})
        r == CASE op = "Set" -> [s |-> select(deselect_all(s), valid_indices),
                                 panic |-> FALSE]
               [] op = "Add" -> [s |-> select(s, valid_indices), panic |-> FALSE]
               [] op = "Remove" -> deselect(s, valid_indices, checks)
    IN IF r.panic THEN r
       ELSE [r EXCEPT !.s = [recount(r.s) EXCEPT !.dirty = TRUE]]

\* One call of a method that cannot panic
Method(name, s) ==
    /\ ~panicked
    /\ sel' = s
    /\ last_op' = name
    /\ UNCHANGED <<last_pick, panicked, overflow_checks>>
    /\ UNCHANGED tc_vars
    /\ UNCHANGED rw_vars
    /\ UNCHANGED <<pk_vars, gpu_vars>>

\* One call that may stop at an overflow check
Checked(name, r) ==
    /\ ~panicked
    /\ sel' = r.s
    /\ last_op' = name
    /\ panicked' = r.panic
    /\ UNCHANGED <<last_pick, overflow_checks>>
    /\ UNCHANGED tc_vars
    /\ UNCHANGED rw_vars
    /\ UNCHANGED <<pk_vars, gpu_vars>>

Select == \E indices \in IndexLists : Method("select", select(sel, indices))
Deselect ==
    \E indices \in IndexLists :
        Checked("deselect", deselect(sel, indices, overflow_checks))
SetSelection ==
    \E indices \in IndexLists : Method("set_selection", set_selection(sel, indices))
SelectAll == Method("select_all", select_all(sel))
DeselectAll == Method("deselect_all", deselect_all(sel))
InvertSelection == Method("invert_selection", invert_selection(sel))
DeleteSelected ==
    /\ sel.num_deleted + CountBit(sel, SELECTED) <= MaxCount
    /\ Method("delete_selected", delete_selected(sel))
UndeleteAll == Method("undelete_all", undelete_all(sel))
LockSelected ==
    /\ sel.num_locked + CountBit(sel, SELECTED) <= MaxCount
    /\ Method("lock_selected", lock_selected(sel))
UnlockAll == Method("unlock_all", unlock_all(sel))

\* A ready pick result is applied; with a target entity that is not the
\* splat entity the result is dropped.
ApplyPickResults ==
    \E op \in PickOps, splat_indices \in SUBSET PickedIndices, on_target \in BOOLEAN :
        LET r == IF on_target
                 THEN apply_pick_results(sel, op, splat_indices, overflow_checks)
                 ELSE [s |-> sel, panic |-> FALSE]
        IN /\ ~panicked
           /\ sel' = r.s
           /\ last_op' = "apply_pick_results"
           /\ last_pick' = [op |-> op,
                            hits |-> {idx \in splat_indices : idx < NumSplats},
                            applied |-> on_target]
           /\ panicked' = r.panic
           /\ UNCHANGED overflow_checks
           /\ UNCHANGED tc_vars
           /\ UNCHANGED rw_vars
           /\ UNCHANGED <<pk_vars, gpu_vars>>

(***************************************************************************)
(* gpu_picker.rs: the compute picker                                       *)
(***************************************************************************)
MaxPicks == 2       \* pick requests issued by the application

\* enum SelectionOp
SelectionOps == {"Set", "Add", "Remove"}
\* num_splats of a request: the splat count of the entity
RequestSizes == {NumSplats}

\* no pick result handled yet
NoPick == [op |-> "Set", hits |-> {}, applied |-> FALSE]

\* the entities a request may target: E, the entity of sel, and F, another
\* entity with as many splats; target is value of target_entity when
\* has_target holds
Targets == {"E", "F"}

\* PickerRequest::default
NoRequest == [active |-> FALSE, has_target |-> FALSE, target |-> "none", op |-> "Set",
              num_splats |-> 0]
\* PickerPendingReadback::default: pending = None (some = FALSE). dispatched_op
\* and dispatched_target record the request whose compute wrote data.
NoPending == [some |-> FALSE, op |-> "Set", has_target |-> FALSE, target |-> "none",
              num_splats |-> 0, ready |-> FALSE, data |-> <<>>,
              dispatched_op |-> "Set", dispatched_target |-> "none"]
\* PickerResult::default
NoResult == [ready |-> FALSE, applied |-> FALSE, op |-> "Set", has_target |-> FALSE,
             target |-> "none", results |-> <<>>,
             dispatched_op |-> "Set", dispatched_target |-> "none"]
\* ExtractedPickerRequest::default
NoExtracted == [active |-> FALSE, op |-> "Set", target |-> "none", num_splats |-> 0]
\* RenderPickerState::default; pending_readback is "none", "shared" (the Arc
\* the main world holds in PickerPendingReadback) or "detached" (an Arc the
\* main world does not hold). bind_group is the bind group of
\* SelectionComputeResources by the entity whose buffers it binds: "none",
\* an entity, or "dropped" for buffers the entity has dropped since.
NoRenderState == [pending_readback |-> "none", waiting_for_readback |-> FALSE,
                  bind_group |-> "none"]

\* PickerRequest::rect / sphere / box_select
new_request(target_entity, op, num_splats) ==
    [active |-> TRUE, has_target |-> TRUE, target |-> target_entity, op |-> op,
     num_splats |-> num_splats]

\* PickerRequest::clear
clear(request) == [request EXCEPT !.active = FALSE, !.has_target = FALSE,
                                  !.target = "none"]

\* the new state byte of splat i under apply_picker_results; result is the
\* picker's u8 for the splat
picked_state(state, op, result) ==
    IF ~Editable(state) THEN state
    ELSE CASE op = "Set" -> IF result # 0 THEN SetBit(state, SELECTED)
                            ELSE ClearBit(state, SELECTED)
           [] op = "Add" -> IF result # 0 THEN SetBit(state, SELECTED) ELSE state
           [] op = "Remove" -> IF result # 0 THEN ClearBit(state, SELECTED) ELSE state

\* the loop of apply_picker_results over one SplatSelectionState
apply_results(s, op, results) ==
    IF NumSplats # Len(results) THEN s
    ELSE [recount([s EXCEPT !.states = [i \in DOMAIN s.states |->
                                          picked_state(s.states[i], op, results[i + 1])]])
          EXCEPT !.dirty = TRUE]

\* The application issues a pick request for an entity of T that has a
\* number of splats of S (any main-world system, any time)
insert_request(T, S) ==
    /\ picks < MaxPicks
    /\ ~panicked
    /\ \E target_entity \in T, op \in SelectionOps, n \in S :
          picker_request' = new_request(target_entity, op, n)
    /\ picks' = picks + 1
    /\ mapping' = "none"
    /\ UNCHANGED <<picker_pending, picker_result, extracted_request, render_state,
                   selection_capacity, ppc, render_pc, request_at_finish>>
    /\ UNCHANGED <<tc_vars, rw_vars, sel_vars, gpu_vars>>

\* requests for the entity of sel alone
RequestPick == insert_request({"E"}, RequestSizes)

\* requests for either entity
RequestPickOfAny == insert_request(Targets, RequestSizes)

\* requests for an entity that has splats or none
RequestPickOfAnySize == insert_request({"E"}, {0} \cup RequestSizes)

\* prepare_gaussian_splat_buffers: an entity without splats gets no
\* GaussianSplatGpuBuffers, one with splats has them once they are prepared
has_gpu_buffers(num_splats) == IF num_splats = 0 THEN {FALSE} ELSE BOOLEAN

\* update_gaussian_splat_buffer_contents and prepare_gaussian_splat_buffers
\* replace the GaussianSplatGpuBuffers of E, whose splats have outgrown them
ReallocateBuffers ==
    /\ render_pc = "idle"
    /\ render_state.bind_group = "E"
    /\ render_state' = [render_state EXCEPT !.bind_group = "dropped"]
    /\ UNCHANGED <<picker_request, picker_pending, picker_result, extracted_request,
                   selection_capacity, ppc, render_pc, picks, mapping, request_at_finish>>
    /\ UNCHANGED <<tc_vars, rw_vars, sel_vars, gpu_vars>>

\* The application cancels the request: PickerRequest::clear
ClearRequest ==
    /\ picker_request.active
    /\ ~panicked
    /\ picker_request' = clear(picker_request)
    /\ UNCHANGED <<picker_pending, picker_result, extracted_request, render_state,
                   selection_capacity, ppc, render_pc, picks, mapping, request_at_finish>>
    /\ UNCHANGED <<tc_vars, rw_vars, sel_vars, gpu_vars>>

\* setup_picker_pending (Update, first of the chain)
SetupPickerPending ==
    /\ ppc = "setup"
    /\ ~panicked
    /\ picker_pending' =
          IF picker_request.active /\ ~picker_pending.some
          THEN [NoPending EXCEPT !.some = TRUE, !.op = picker_request.op,
                                 !.has_target = picker_request.has_target,
                                 !.target = picker_request.target,
                                 !.num_splats = picker_request.num_splats]
          ELSE picker_pending
    /\ ppc' = "poll"
    /\ UNCHANGED <<picker_request, picker_result, extracted_request, render_state,
                   selection_capacity, render_pc, picks, mapping, request_at_finish>>
    /\ UNCHANGED <<tc_vars, rw_vars, sel_vars, gpu_vars>>

\* poll_picker_readback (Update, second of the chain); try_lock can fail only
\* while the render world is running
PollPickerReadback ==
    /\ ppc = "poll"
    /\ ~panicked
    /\ \E locked \in {TRUE, render_pc = "idle"} :
          IF /\ picker_pending.some /\ locked
             /\ picker_pending.ready /\ picker_pending.data # <<>>
          THEN /\ picker_result' = [ready |-> TRUE, applied |-> FALSE,
                                    op |-> picker_pending.op,
                                    has_target |-> picker_pending.has_target,
                                    target |-> picker_pending.target,
                                    results |-> picker_pending.data,
                                    dispatched_op |-> picker_pending.dispatched_op,
                                    dispatched_target |->
                                       picker_pending.dispatched_target]
               /\ picker_pending' = NoPending
               /\ render_state' =
                     [render_state EXCEPT !.pending_readback =
                         IF @ = "shared" THEN "detached" ELSE @]
          ELSE UNCHANGED <<picker_result, picker_pending, render_state>>
    /\ ppc' = "apply"
    /\ UNCHANGED <<picker_request, extracted_request, selection_capacity,
                   render_pc, picks, mapping, request_at_finish>>
    /\ UNCHANGED <<tc_vars, rw_vars, sel_vars, gpu_vars>>

\* apply_picker_results (Update, last of the chain)
ApplyPickerResults ==
    /\ ppc = "apply"
    /\ ~panicked
    /\ IF ~picker_result.ready \/ picker_result.applied
       THEN UNCHANGED <<picker_result, picker_request, sel, last_op, last_pick>>
       ELSE IF ~picker_result.has_target
       THEN /\ picker_result' = [picker_result EXCEPT !.applied = TRUE]
            /\ UNCHANGED <<picker_request, sel, last_op, last_pick>>
       ELSE /\ sel' = apply_results(sel, picker_result.op, picker_result.results)
            /\ last_op' = "apply_picker_results"
            /\ last_pick' = [op |-> picker_result.op,
                             hits |-> {i \in SplatIds :
                                         /\ i + 1 \in DOMAIN picker_result.results
                                         /\ picker_result.results[i + 1] # 0},
                             applied |-> NumSplats = Len(picker_result.results)]
            /\ picker_result' = [picker_result EXCEPT !.applied = TRUE]
            /\ picker_request' = clear(picker_request)
    /\ ppc' = "extract"
    /\ UNCHANGED <<picker_pending, extracted_request, render_state,
                   selection_capacity, render_pc, picks, mapping, request_at_finish>>
    /\ UNCHANGED <<panicked, overflow_checks>>
    /\ UNCHANGED <<tc_vars, rw_vars, gpu_vars>>

\* extract_picker_request (ExtractSchedule): runs once the render world has
\* finished the previous frame
ExtractPickerRequest ==
    /\ ppc = "extract"
    /\ render_pc = "idle"
    /\ ~panicked
    /\ IF picker_request.active /\ ~render_state.waiting_for_readback
       THEN /\ extracted_request' = [active |-> TRUE, op |-> picker_request.op,
                                     target |-> picker_request.target,
                                     num_splats |-> picker_request.num_splats]
            /\ render_state' =
                  [render_state EXCEPT !.pending_readback =
                      IF picker_pending.some THEN "shared" ELSE "detached"]
       ELSE /\ extracted_request' = [extracted_request EXCEPT !.active = FALSE]
            /\ UNCHANGED render_state
    /\ ppc' = "setup"
    /\ render_pc' = "prepare"
    /\ UNCHANGED <<picker_request, picker_pending, picker_result,
                   selection_capacity, picks, mapping, request_at_finish>>
    /\ UNCHANGED <<tc_vars, rw_vars, sel_vars, gpu_vars>>

\* prepare_selection_resources (Render, PrepareResources): new resources
\* have no bind group
PrepareSelectionResources ==
    /\ render_pc = "prepare"
    /\ LET need_recreate == /\ extracted_request.active
                            /\ selection_capacity < extracted_request.num_splats
       IN /\ selection_capacity' = IF need_recreate THEN extracted_request.num_splats
                                   ELSE selection_capacity
          /\ render_state' = IF need_recreate
                             THEN [render_state EXCEPT !.bind_group = "none"]
                             ELSE render_state
    /\ render_pc' = "bind_groups"
    /\ UNCHANGED <<picker_request, picker_pending, picker_result, extracted_request,
                   ppc, picks, mapping, request_at_finish>>
    /\ UNCHANGED <<tc_vars, rw_vars, sel_vars, gpu_vars>>

\* prepare_selection_bind_groups (Render, PrepareBindGroups): with resources
\* that have no bind group and with GaussianSplatGpuBuffers on the target
\* (gpu_buffers), the bind group is built from the target's buffers
PrepareSelectionBindGroups ==
    /\ render_pc = "bind_groups"
    /\ \E gpu_buffers \in has_gpu_buffers(extracted_request.num_splats) :
          render_state' =
             IF /\ extracted_request.active /\ selection_capacity # 0
                /\ gpu_buffers /\ render_state.bind_group = "none"
             THEN [render_state EXCEPT !.bind_group = extracted_request.target]
             ELSE render_state
    /\ render_pc' = "execute"
    /\ UNCHANGED <<picker_request, picker_pending, picker_result, extracted_request,
                   selection_capacity, ppc, picks, mapping, request_at_finish>>
    /\ UNCHANGED <<tc_vars, rw_vars, sel_vars, gpu_vars>>

\* execute_selection_compute (Render). pipeline: pipeline id and compiled
\* pipeline are there; mapped: map_async succeeded before the timeout; hits:
\* what the shader wrote, one entry per staging-buffer word
ExecuteSelectionCompute ==
    /\ render_pc = "execute"
    /\ \E pipeline \in BOOLEAN, mapped \in BOOLEAN,
          hits \in [1..selection_capacity -> {0, 1}] :
          LET ready == /\ pipeline /\ selection_capacity # 0
                       /\ render_state.bind_group # "none"
          IN
          IF ~extracted_request.active \/ ~ready
          THEN /\ mapping' = "none"
               /\ UNCHANGED <<picker_pending, extracted_request, render_state,
                              request_at_finish>>
          ELSE /\ mapping' = IF mapped THEN "ok" ELSE "failed"
               /\ request_at_finish' =
                     IF render_state.pending_readback = "shared" /\ mapped
                     THEN picker_request.active
                     ELSE request_at_finish
               /\ picker_pending' =
                     IF render_state.pending_readback = "shared" /\ mapped
                     THEN [picker_pending EXCEPT
                              !.num_splats = extracted_request.num_splats,
                              !.data = hits,
                              !.ready = TRUE,
                              !.dispatched_op = extracted_request.op,
                              !.dispatched_target = extracted_request.target]
                     ELSE picker_pending
               /\ render_state' =
                     IF render_state.pending_readback = "none" THEN render_state
                     ELSE [render_state EXCEPT !.waiting_for_readback = FALSE]
               /\ extracted_request' = [extracted_request EXCEPT !.active = FALSE]
    /\ render_pc' = "idle"
    /\ UNCHANGED <<picker_request, picker_result, selection_capacity, ppc, picks>>
    /\ UNCHANGED <<tc_vars, rw_vars, sel_vars, gpu_vars>>

(***************************************************************************)
(* radix_sort.rs, gaussian_point_cloud.rs: cull and radix sort on the GPU  *)
(***************************************************************************)
RADIX == 2          \* bins of one digit (256 in the source)
BLOCK_SIZE == 2     \* keys of one partition (1024 in the source)
MaxPoints == 3      \* largest buffer_capacity of the entity
MaxKey == 2         \* largest depth key the cull writes
Passes == 4         \* for pass_idx in 0..4
MaxConfigChanges == 1   \* changes of the RenderingConfig

RECURSIVE Pow(_, _)
Pow(b, e) == IF e = 0 THEN 1 ELSE b * Pow(b, e - 1)

RECURSIVE SumTo(_, _)
\* f[0] + ... + f[n - 1]
SumTo(f, n) == IF n = 0 THEN 0 ELSE f[n - 1] + SumTo(f, n - 1)

\* a digit taken without the shift of the pass
Digit_unshifted(key, pass) == key % RADIX

\* the digit of a key that a pass sorts by: (key >> bit_shift) & (RADIX - 1),
\* bit_shift = pass * 8 for RADIX = 256
Digit(key, pass) == (key \div Pow(RADIX, pass)) % RADIX

\* the depth keys of the model: below RADIX^Passes, as u32 keys are below 256^4
DepthKeys == {k \in 0..MaxKey : k < Pow(RADIX, Passes)}

Zeros(n) == [i \in 0..(n - 1) |-> 0]

\* create_radix_sort_buffers: num_partitions
num_partitions_of(max_elements) == (max_elements + BLOCK_SIZE - 1) \div BLOCK_SIZE

\* the entity has no GaussianSplatGpuBuffers
NoBuffers ==
    [some |-> FALSE, point_count |-> 0, buffer_capacity |-> 0,
     depth_keys |-> Zeros(0), visible_indices |-> Zeros(0), instance_count |-> 0,
     keys_temp |-> Zeros(0), values_temp |-> Zeros(0),
     global_histogram |-> Zeros(0), partition_histogram |-> Zeros(0),
     num_partitions |-> 0]

\* prepare_gaussian_splat_buffers: the sort buffers of a new
\* GaussianSplatGpuBuffers, and create_radix_sort_buffers
new_buffers(point_count, buffer_capacity) ==
    [some |-> TRUE, point_count |-> point_count, buffer_capacity |-> buffer_capacity,
     depth_keys |-> Zeros(buffer_capacity),
     visible_indices |-> [i \in 0..(buffer_capacity - 1) |-> i],
     instance_count |-> point_count,
     keys_temp |-> Zeros(buffer_capacity), values_temp |-> Zeros(buffer_capacity),
     global_histogram |-> Zeros(RADIX * Passes),
     partition_histogram |-> Zeros(RADIX * num_partitions_of(buffer_capacity)),
     num_partitions |-> num_partitions_of(buffer_capacity)]

\* values read from the original buffer in every pass
values_in_unswapped(g, pass) == g.visible_indices

\* prepare_radix_sort_bind_groups: the ping-pong of a pass
keys_in(g, pass) == IF pass % 2 = 0 THEN g.depth_keys ELSE g.keys_temp
values_in(g, pass) == IF pass % 2 = 0 THEN g.visible_indices ELSE g.values_temp

\* the keys of partition p that a pass counts and scatters: those below the
\* element count of the indirect buffer
partition_elements(g, p) ==
    {i \in DOMAIN g.depth_keys : i \div BLOCK_SIZE = p /\ i < g.instance_count}

\* upsweep: the histogram of partition p
local_histogram(g, pass, p, d) ==
    Cardinality({i \in partition_elements(g, p) : Digit(keys_in(g, pass)[i], pass) = d})

\* upsweep, one workgroup per partition: writes the partition histogram and
\* adds it to the section of the pass in the global histogram
upsweep(g, pass) ==
    [g EXCEPT
       !.partition_histogram =
          [x \in DOMAIN @ |-> local_histogram(g, pass, x \div RADIX, x % RADIX)],
       !.global_histogram =
          [x \in DOMAIN @ |->
              IF x \div RADIX = pass
              THEN @[x] + SumTo([p \in 0..(g.num_partitions - 1) |->
                                    local_histogram(g, pass, p, x % RADIX)],
                                g.num_partitions)
              ELSE @[x]]]

\* spine: the exclusive prefix sum of the pass's section of the global
\* histogram at bucket d
global_offset(g, pass, d) ==
    SumTo([e \in 0..(RADIX - 1) |-> g.global_histogram[pass * RADIX + e]], d)

\* spine: the exclusive prefix sum of bucket d along the partition axis
partition_offset(g, p, d) ==
    SumTo([q \in 0..(g.num_partitions - 1) |-> g.partition_histogram[q * RADIX + d]], p)

\* spine, one workgroup per bucket: afterwards partition_histogram[p][d] is the
\* global start offset of the elements of digit d in partition p
spine(g, pass) ==
    [g EXCEPT
       !.partition_histogram =
          [x \in DOMAIN @ |-> global_offset(g, pass, x % RADIX)
                              + partition_offset(g, x \div RADIX, x % RADIX)],
       !.global_histogram =
          [x \in DOMAIN @ |-> IF x \div RADIX = pass
                              THEN global_offset(g, pass, x % RADIX)
                              ELSE @[x]]]

\* the number of later elements of the partition with the digit of element i
rank_in_partition_reversed(g, pass, i) ==
    Cardinality({j \in partition_elements(g, i \div BLOCK_SIZE) :
                    /\ j > i
                    /\ Digit(keys_in(g, pass)[j], pass) = Digit(keys_in(g, pass)[i], pass)})

\* downsweep: the number of earlier elements of the partition with the digit
\* of element i
rank_in_partition(g, pass, i) ==
    Cardinality({j \in partition_elements(g, i \div BLOCK_SIZE) :
                    /\ j < i
                    /\ Digit(keys_in(g, pass)[j], pass) = Digit(keys_in(g, pass)[i], pass)})

\* downsweep: the slot element i is scattered to
scatter_slot(g, pass, i) ==
    g.partition_histogram[(i \div BLOCK_SIZE) * RADIX + Digit(keys_in(g, pass)[i], pass)]
    + rank_in_partition(g, pass, i)

\* downsweep: the output buffer after the scatter of the input buffer
scattered(g, pass, input, output) ==
    [slot \in DOMAIN output |->
        LET from == {i \in DOMAIN input : /\ i < g.instance_count
                                          /\ i \div BLOCK_SIZE < g.num_partitions
                                          /\ scatter_slot(g, pass, i) = slot}
        IN IF from = {} THEN output[slot] ELSE input[CHOOSE i \in from : TRUE]]

\* downsweep, one workgroup per partition: scatters (key, value) into the
\* output buffers of the pass
downsweep(g, pass) ==
    IF pass % 2 = 0
    THEN [g EXCEPT !.keys_temp = scattered(g, pass, keys_in(g, pass), @),
                   !.values_temp = scattered(g, pass, values_in(g, pass), @)]
    ELSE [g EXCEPT !.depth_keys = scattered(g, pass, keys_in(g, pass), @),
                   !.visible_indices = scattered(g, pass, values_in(g, pass), @)]

\* the encoder of the frame has no command left
Idle == [at |-> "idle", pass |-> 0, threads |-> {}]
\* no radix sort has started
\* culled: a cull has written the entity's buffers; complete: every compute
\* pass of the radix sort that followed that cull was dispatched on them
NoSort == [keys |-> Zeros(0), values |-> Zeros(0), count |-> 0,
           culled |-> FALSE, complete |-> FALSE]
RadixStages == {"upsweep", "spine", "downsweep"}

\* no GaussianSplats entity has been extracted. Of a bind group component the
\* entity records the buffers it was built from: "none" (no such component),
\* "current" (the entity's GaussianSplatGpuBuffers) or "dropped" (buffers that
\* the entity has dropped since)
\* pipeline_id is the GaussianSplatPipelineId component by the state of the
\* pipeline it names in the PipelineCache: "none" (no component), "queued" or
\* "compiled". config_changed is Changed<RenderingConfig> of the next frame,
\* config_changes counts the changes, drawn records whether the last node that
\* reached the entity's draw recorded draw_indirect.
NoEntity ==
    [splats |-> 0, needs_update |-> FALSE, bind_group |-> "none",
     cull_bind_group |-> "none", radix_sort_bind_groups |-> "none",
     pipeline_id |-> "none", config_changed |-> FALSE, config_changes |-> 0,
     drawn |-> FALSE]

\* the remove of GaussianSplatGpuBuffers leaves the bind group components on
\* the entity: they keep the buffers they were built from
after_drop(bg) == IF bg = "current" THEN "dropped" ELSE bg

\* the systems of a frame's render schedule, in their order
AtSystem(at) == [at |-> at, pass |-> 0, threads |-> {}]

\* the main-world entity before the producer has touched it. pending records
\* that the producer has updated the splats and no upload has followed yet.
NoUpdate == [needs_update |-> FALSE, pending |-> FALSE]

\* The producer rewrites the splats and inserts BuffersNeedUpdate on the
\* main-world entity, in a system that runs before the extraction of the
\* frame (before or after update_temporal_coherence_cache).
InsertBuffersNeedUpdate ==
    /\ gpu_pc.at \in {"idle", "extract"}
    /\ entity.splats # 0
    /\ main_world' = [needs_update |-> TRUE, pending |-> TRUE]
    /\ UNCHANGED <<gpu, gpu_pc, radix_pipelines, sort_in, entity>>
    /\ UNCHANGED <<tc_vars, rw_vars, sel_vars, pk_vars, gs_vars, pp_vars>>

\* update_temporal_coherence_cache in a world without Camera3d, where it
\* returns after the detection: data_updated is the presence of
\* BuffersNeedUpdate on the main-world entity, transform_changed holds in the
\* frame that follows the spawn of the entity (Changed<GlobalTransform>), the
\* entity being at rest afterwards.
DetectDataUpdate ==
    /\ gpu_pc.at = "idle"
    /\ LET entities_with_update == main_world.needs_update
           entities_with_changed_transform == entity.splats = 0
       IN cache' = SetDataUpdated(cache, entities_with_update
                                            \/ entities_with_changed_transform)
    /\ gpu_pc' = AtSystem("extract")
    /\ UNCHANGED <<config, camera, call, resort_pos>>
    /\ UNCHANGED <<gpu, radix_pipelines, sort_in, entity>>
    /\ UNCHANGED <<rw_vars, sel_vars, pk_vars, main_world, gs_vars, pp_vars>>

\* extract_gaussian_splats: the first extraction clones the splats; later
\* ones clone them again only if the main-world entity carries
\* BuffersNeedUpdate, and forward the marker. No system removes the marker
\* from the main-world entity.
ExtractSplats ==
    /\ gpu_pc.at = "extract"
    /\ \E len \in 1..MaxPoints :
          LET needs_data_update == main_world.needs_update
          IN entity' = IF entity.splats = 0 THEN [entity EXCEPT !.splats = len]
                       ELSE IF needs_data_update
                       THEN [entity EXCEPT !.splats = len, !.needs_update = TRUE]
                       ELSE entity
    /\ gpu_pc' = AtSystem("pipelines")
    /\ UNCHANGED <<gpu, radix_pipelines, sort_in>>
    /\ UNCHANGED <<tc_vars, rw_vars, sel_vars, pk_vars, main_world, gs_vars, pp_vars>>

\* The application changes the RenderingConfig of the entity; the next frame's
\* extraction marks the component of the render entity as changed.
ChangeRenderingConfig ==
    /\ gpu_pc.at = "idle"
    /\ entity.splats # 0
    /\ entity.config_changes < MaxConfigChanges
    /\ entity' = [entity EXCEPT !.config_changed = TRUE, !.config_changes = @ + 1]
    /\ UNCHANGED <<gpu, gpu_pc, radix_pipelines, sort_in>>
    /\ UNCHANGED <<tc_vars, rw_vars, sel_vars, pk_vars, main_world, gs_vars, pp_vars>>

\* prepare_gaussian_splat_pipelines: with a 3D view, an entity without
\* GaussianSplatPipelineId, and every entity when a config has changed, gets
\* the id of the pipeline specialized for its key; a key that was specialized
\* before names a pipeline of the cache (cached), a new key queues one
PreparePipelines ==
    /\ gpu_pc.at = "pipelines"
    /\ \E view \in BOOLEAN, cached \in BOOLEAN :
          LET has_pipeline == entity.pipeline_id # "none"
              config_changed == entity.config_changed
          IN entity' = IF entity.splats = 0 \/ ~view
                       THEN [entity EXCEPT !.config_changed = FALSE]
                       ELSE IF ~config_changed /\ has_pipeline
                       THEN entity
                       ELSE [entity EXCEPT
                               !.config_changed = FALSE,
                               !.pipeline_id = IF has_pipeline /\ cached
                                               THEN @ ELSE "queued"]
    /\ gpu_pc' = AtSystem("prepare_buffers")
    /\ UNCHANGED <<gpu, radix_pipelines, sort_in>>
    /\ UNCHANGED <<tc_vars, rw_vars, sel_vars, pk_vars, main_world, gs_vars, pp_vars>>

\* PipelineCache: the queued render pipeline of the entity is compiled
CompileRenderPipeline ==
    /\ gpu_pc.at = "idle"
    /\ entity.pipeline_id = "queued"
    /\ entity' = [entity EXCEPT !.pipeline_id = "compiled"]
    /\ UNCHANGED <<gpu, gpu_pc, radix_pipelines, sort_in>>
    /\ UNCHANGED <<tc_vars, rw_vars, sel_vars, pk_vars, main_world, gs_vars, pp_vars>>

\* prepare_gaussian_splat_buffers: with a view, an entity with splats and
\* without GaussianSplatGpuBuffers gets them
PrepareBuffers ==
    /\ gpu_pc.at = "prepare_buffers"
    /\ \E view \in BOOLEAN, splats_capacity \in 0..MaxPoints :
          LET point_count == entity.splats
              buffer_capacity == IF splats_capacity > point_count THEN splats_capacity
                                 ELSE point_count
          IN gpu' = IF view /\ ~gpu.some /\ point_count > 0
                    THEN new_buffers(point_count, buffer_capacity)
                    ELSE gpu
    /\ gpu_pc' = AtSystem("update")
    /\ UNCHANGED <<radix_pipelines, sort_in, entity>>
    /\ UNCHANGED <<tc_vars, rw_vars, sel_vars, pk_vars, main_world, gs_vars, pp_vars>>

\* update_gaussian_splat_buffer_contents, for an entity with BuffersNeedUpdate
\* and buffers: more splats than the capacity remove the buffers; a changed
\* count is written to point_count, cull_params and the indirect buffer
UpdateBufferContents ==
    /\ gpu_pc.at = "update"
    /\ IF entity.needs_update /\ gpu.some
       THEN IF entity.splats > gpu.buffer_capacity
            THEN /\ gpu' = NoBuffers
                 /\ entity' = [entity EXCEPT
                                  !.needs_update = FALSE,
                                  !.bind_group = after_drop(@),
                                  !.cull_bind_group = after_drop(@),
                                  !.radix_sort_bind_groups = after_drop(@)]
                 /\ sort_in' = [sort_in EXCEPT !.culled = FALSE, !.complete = FALSE]
                 /\ UNCHANGED main_world
            ELSE /\ gpu' = IF gpu.point_count # entity.splats
                           THEN [gpu EXCEPT !.point_count = entity.splats,
                                            !.instance_count = entity.splats]
                           ELSE gpu
                 /\ entity' = [entity EXCEPT !.needs_update = FALSE]
                 /\ main_world' = [main_world EXCEPT !.pending = FALSE]
                 /\ UNCHANGED sort_in
       ELSE UNCHANGED <<gpu, entity, main_world, sort_in>>
    /\ gpu_pc' = AtSystem("bind_group")
    /\ UNCHANGED radix_pipelines
    /\ UNCHANGED <<tc_vars, rw_vars, sel_vars, pk_vars, gs_vars, pp_vars>>

\* pipeline_cache.get_render_pipeline(pipeline_id) of an entity with the
\* component is Some
pipeline_ready_always(pipeline_id) == pipeline_id # "none"
pipeline_ready(pipeline_id) == pipeline_id = "compiled"

\* prepare_gaussian_splat_bind_groups: with the view binding and the entity's
\* render pipeline compiled, an entity with buffers and Without
\* GaussianSplatBindGroup gets one
PrepareBindGroup ==
    /\ gpu_pc.at = "bind_group"
    /\ \E view_binding \in BOOLEAN :
          entity' = IF /\ view_binding /\ gpu.some /\ entity.bind_group = "none"
                       /\ pipeline_ready(entity.pipeline_id)
                    THEN [entity EXCEPT !.bind_group = "current"]
                    ELSE entity
    /\ gpu_pc' = AtSystem("cull_bind_group")
    /\ UNCHANGED <<gpu, radix_pipelines, sort_in>>
    /\ UNCHANGED <<tc_vars, rw_vars, sel_vars, pk_vars, main_world, gs_vars, pp_vars>>

\* prepare_gaussian_splat_cull_bind_groups: with the view binding, an entity
\* with buffers and Without GaussianSplatCullBindGroup gets one
PrepareCullBindGroup ==
    /\ gpu_pc.at = "cull_bind_group"
    /\ \E view_binding \in BOOLEAN :
          entity' = IF view_binding /\ gpu.some /\ entity.cull_bind_group = "none"
                    THEN [entity EXCEPT !.cull_bind_group = "current"]
                    ELSE entity
    /\ gpu_pc' = AtSystem("radix_sort_bind_groups")
    /\ UNCHANGED <<gpu, radix_pipelines, sort_in>>
    /\ UNCHANGED <<tc_vars, rw_vars, sel_vars, pk_vars, main_world, gs_vars, pp_vars>>

\* prepare_radix_sort_bind_groups: an entity with buffers and Without
\* RadixSortBindGroups gets them
PrepareRadixSortBindGroups ==
    /\ gpu_pc.at = "radix_sort_bind_groups"
    /\ entity' = IF gpu.some /\ entity.radix_sort_bind_groups = "none"
                 THEN [entity EXCEPT !.radix_sort_bind_groups = "current"]
                 ELSE entity
    /\ gpu_pc' = AtSystem("node")
    /\ UNCHANGED <<gpu, radix_pipelines, sort_in>>
    /\ UNCHANGED <<tc_vars, rw_vars, sel_vars, pk_vars, main_world, gs_vars, pp_vars>>

\* PipelineCache: a queued radix sort pipeline is compiled
CompilePipeline ==
    /\ gpu_pc.at = "idle"
    /\ \E stage \in RadixStages \ radix_pipelines :
          radix_pipelines' = radix_pipelines \cup {stage}
    /\ UNCHANGED <<gpu, gpu_pc, sort_in, entity>>
    /\ UNCHANGED <<tc_vars, rw_vars, sel_vars, pk_vars, main_world, gs_vars, pp_vars>>

\* PipelineCache: the view's cull pipeline is compiled
CompileCullPipeline ==
    /\ gpu_pc.at = "idle"
    /\ ~cull_ready
    /\ cull_ready' = TRUE
    /\ UNCHANGED <<pc, temporal_cache, viewport, render_cache, cache_written,
                   drawable, preview_ready, blit_ready, node>>
    /\ UNCHANGED <<tc_vars, sel_vars, pk_vars, gpu_vars>>

\* GaussianSplatNode::run collects the entities with GaussianSplatGpuBuffers
\* and the three bind group components
to_render == /\ gpu.some
             /\ entity.pipeline_id # "none"
             /\ entity.bind_group # "none"
             /\ entity.cull_bind_group # "none"
             /\ entity.radix_sort_bind_groups # "none"

\* GaussianSplatNode::run, steps 1 and 2: unless the sort is skipped or the
\* cull pipeline is missing, the sort buffers and instance_count of the
\* entity's buffers are cleared, the cull is dispatched with the cull bind
\* group, one thread per splat, the histograms are cleared and
\* execute_radix_sort records its twelve compute passes. The histograms are
\* no buffer of the cull, so their clear is applied here with the others.
\* skip is skip_sorting, the flag of the extracted temporal cache: false when
\* its data_updated_this_frame holds, which is computed in PostUpdate from
\* the markers present then and does not depend on the update of this frame,
\* and otherwise sorting_skipped, an input here.
\* A cull bind group built from dropped buffers makes the threads write those
\* buffers, which no component holds any more.
BeginCull ==
    /\ gpu_pc.at = "node"
    /\ IF ~to_render
       THEN /\ gpu_pc' = Idle
            /\ UNCHANGED <<gpu, sort_in>>
       ELSE \E skip \in IF cache.data_updated_this_frame THEN {FALSE} ELSE BOOLEAN :
          LET cull_executed == ~skip /\ cull_ready
          IN IF cull_executed
             THEN /\ gpu' = [gpu EXCEPT !.depth_keys = Zeros(gpu.buffer_capacity),
                                         !.visible_indices = Zeros(gpu.buffer_capacity),
                                         !.keys_temp = Zeros(gpu.buffer_capacity),
                                         !.values_temp = Zeros(gpu.buffer_capacity),
                                         !.instance_count = 0,
                                         !.global_histogram = Zeros(RADIX * Passes),
                                         !.partition_histogram =
                                            Zeros(RADIX * gpu.num_partitions)]
                  /\ gpu_pc' = [at |-> "cull", pass |-> 0,
                                threads |-> IF entity.cull_bind_group = "current"
                                            THEN 0..(gpu.point_count - 1)
                                            ELSE {}]
                  /\ sort_in' = NoSort
             ELSE /\ gpu_pc' = [at |-> "draw", pass |-> 0, threads |-> {}]
                  /\ UNCHANGED <<gpu, sort_in>>
    /\ UNCHANGED <<radix_pipelines, entity>>
    /\ UNCHANGED <<tc_vars, rw_vars, sel_vars, pk_vars, main_world, gs_vars, pp_vars>>

\* project_and_cull, the thread of splat i: a visible splat is appended at
\* the slot the atomic counter instance_count gives it
CullThread ==
    /\ gpu_pc.at = "cull"
    /\ \E i \in gpu_pc.threads, visible \in BOOLEAN, key \in DepthKeys :
          /\ gpu' = IF visible
                    THEN [gpu EXCEPT !.visible_indices[gpu.instance_count] = i,
                                     !.depth_keys[gpu.instance_count] = key,
                                     !.instance_count = @ + 1]
                    ELSE gpu
          /\ gpu_pc' = [gpu_pc EXCEPT !.threads = @ \ {i}]
    /\ UNCHANGED <<radix_pipelines, sort_in, entity>>
    /\ UNCHANGED <<tc_vars, rw_vars, sel_vars, pk_vars, main_world, gs_vars, pp_vars>>

\* the end of the cull's compute pass: every thread has finished, and the
\* passes of execute_radix_sort follow
EndCullPass ==
    /\ gpu_pc.at = "cull"
    /\ gpu_pc.threads = {}
    /\ gpu_pc' = [at |-> "upsweep", pass |-> 0, threads |-> {}]
    /\ sort_in' = [keys |-> gpu.depth_keys, values |-> gpu.visible_indices,
                   count |-> gpu.instance_count,
                   culled |-> entity.cull_bind_group = "current", complete |-> TRUE]
    /\ UNCHANGED <<gpu, radix_pipelines, entity>>
    /\ UNCHANGED <<tc_vars, rw_vars, sel_vars, pk_vars, main_world, gs_vars, pp_vars>>

\* a compute pass of execute_radix_sort is dispatched if its pipeline is
\* compiled; with bind groups built from the entity's buffers it acts on them
dispatched(stage) ==
    stage \in radix_pipelines /\ entity.radix_sort_bind_groups = "current"

\* execute_radix_sort: the upsweep pass of pass_idx
Upsweep ==
    /\ gpu_pc.at = "upsweep"
    /\ gpu' = IF dispatched("upsweep") THEN upsweep(gpu, gpu_pc.pass) ELSE gpu
    /\ gpu_pc' = [gpu_pc EXCEPT !.at = "spine"]
    /\ sort_in' = [sort_in EXCEPT !.complete = @ /\ dispatched("upsweep")]
    /\ UNCHANGED <<radix_pipelines, entity>>
    /\ UNCHANGED <<tc_vars, rw_vars, sel_vars, pk_vars, main_world, gs_vars, pp_vars>>

\* execute_radix_sort: the spine pass of pass_idx
Spine ==
    /\ gpu_pc.at = "spine"
    /\ gpu' = IF dispatched("spine") THEN spine(gpu, gpu_pc.pass) ELSE gpu
    /\ gpu_pc' = [gpu_pc EXCEPT !.at = "downsweep"]
    /\ sort_in' = [sort_in EXCEPT !.complete = @ /\ dispatched("spine")]
    /\ UNCHANGED <<radix_pipelines, entity>>
    /\ UNCHANGED <<tc_vars, rw_vars, sel_vars, pk_vars, main_world, gs_vars, pp_vars>>

\* execute_radix_sort: the downsweep pass of pass_idx; after the last pass the
\* draw is next
Downsweep ==
    /\ gpu_pc.at = "downsweep"
    /\ gpu' = IF dispatched("downsweep") THEN downsweep(gpu, gpu_pc.pass)
              ELSE gpu
    /\ gpu_pc' = IF gpu_pc.pass + 1 < Passes
                 THEN [gpu_pc EXCEPT !.at = "upsweep", !.pass = @ + 1]
                 ELSE [gpu_pc EXCEPT !.at = "draw", !.pass = Passes]
    /\ sort_in' = [sort_in EXCEPT !.complete = @ /\ dispatched("downsweep")]
    /\ UNCHANGED <<radix_pipelines, entity>>
    /\ UNCHANGED <<tc_vars, rw_vars, sel_vars, pk_vars, main_world, gs_vars, pp_vars>>

\* GaussianSplatNode::run, step 3: draw_indirect of the entity with its
\* render bind group and the indirect buffer of its buffers
DrawIndirect ==
    /\ gpu_pc.at = "draw"
    /\ entity' = [entity EXCEPT !.drawn = pipeline_ready(entity.pipeline_id)]
    /\ gpu_pc' = Idle
    /\ UNCHANGED <<gpu, radix_pipelines, sort_in>>
    /\ UNCHANGED <<tc_vars, rw_vars, sel_vars, pk_vars, main_world, gs_vars, pp_vars>>

(***************************************************************************)
(* tests/radix_sort_tests.rs: the CPU reference                            *)
(***************************************************************************)
\* cpu_radix_sort_reference: "Exclusive prefix sum" of the histogram at digit
cpu_histogram_start(keys, pass, digit) ==
    Cardinality({i \in DOMAIN keys : Digit(keys[i], pass) < digit})

\* cpu_radix_sort_reference: "Reorder", the position keys[i] is written to
cpu_position(keys, pass, i) ==
    cpu_histogram_start(keys, pass, Digit(keys[i], pass))
    + Cardinality({j \in DOMAIN keys : j < i /\ Digit(keys[j], pass) = Digit(keys[i], pass)})

\* cpu_radix_sort_reference: one pass over a buffer
cpu_reorder(keys, pass, buffer) ==
    [pos \in DOMAIN buffer |-> buffer[CHOOSE i \in DOMAIN keys : cpu_position(keys, pass, i) = pos]]

RECURSIVE cpu_passes(_, _, _)
\* cpu_radix_sort_reference: passes pass..3
cpu_passes(keys, values, pass) ==
    IF pass = Passes THEN [keys |-> keys, values |-> values]
    ELSE cpu_passes(cpu_reorder(keys, pass, keys), cpu_reorder(keys, pass, values), pass + 1)

cpu_radix_sort_reference(keys, values) == cpu_passes(keys, values, 0)

\* is_sorted
is_sorted(keys) == \A i \in DOMAIN keys : i >= 1 => ~(keys[i] < keys[i - 1])

\* verify_permutation
verify_permutation(original_keys, original_values, sorted_keys, sorted_values) ==
    /\ DOMAIN original_keys = DOMAIN sorted_keys
    /\ \A i \in DOMAIN sorted_keys :
          \E j \in DOMAIN original_keys :
             original_keys[j] = sorted_keys[i] /\ original_values[j] = sorted_values[i]

\* the first n entries of a buffer
Prefix(buffer, n) == [i \in 0..(n - 1) |-> buffer[i]]

(***************************************************************************)
(* gaussian_point_cloud.rs: the pick pass                                  *)
(***************************************************************************)
MaxPickRequests == 2    \* pick requests that the application makes
RectPixels == 2         \* pixels of the pick rectangle

\* PickRequest::default, with the number of the request it holds and, in
\* applied, the number of the request whose result was applied last
NoPickRequest == [active |-> FALSE, op |-> "Set", id |-> 0, applied |-> 0]
\* the main world waits for the render world, which has nothing to do
Frame(main_system) == [main |-> main_system, render |-> "idle"]
\* byte k of the u32 v
Byte(v, k) == (v \div Pow(256, k)) % 256
\* the pick fragment output for a splat: its index plus one in the four
\* channels of the Rgba8Unorm pixel, least significant byte in r; 0 where no
\* splat is drawn (the pass clears to black)
pack_index(v) == <<Byte(v, 0), Byte(v, 1), Byte(v, 2), Byte(v, 3)>>
\* a buffer the device has just created: zeros, written for no request
FreshStaging == [written_for |-> 0,
                 pixels |-> [k \in 1..RectPixels |-> pack_index(0)],
                 drawn |-> {}]
\* no PickRenderTarget resource
NoPickTarget == [some |-> FALSE, pick_active |-> FALSE, op |-> "Set", id |-> 0,
                 staging |-> FreshStaging]
\* PickReadbackData::default and PickResult::default. id is the request the
\* data was read for, written_for the request whose pick pass wrote the bytes
\* read, drawn the splats that pass drew inside the rectangle.
NoPickData == [ready |-> FALSE, pixels |-> <<>>, splat_indices |-> {},
               op |-> "Set", id |-> 0, written_for |-> 0, drawn |-> {}]
\* the ways GaussianSplatNode::run ends for the view
NodePaths == {"preview", "no_entities", "cache_blit", "zero_viewport", "render"}

\* let index = r | (g << 8) | (b << 16) | (a << 24)
decode(chunk) ==
    chunk[1] + chunk[2] * 256 + chunk[3] * 65536 + chunk[4] * 16777216

\* index > 0 && index < 0xFFFFFFFF
is_splat_index(chunk) ==
    /\ chunk # <<0, 0, 0, 0>>
    /\ chunk # <<255, 255, 255, 255>>

\* The application asks for a pick of a rectangle
RequestPickPass ==
    /\ pick_pc.main \in {"poll", "extract"}
    /\ pick_request.id < MaxPickRequests
    /\ \E op \in PickOps :
          pick_request' = [pick_request EXCEPT !.active = TRUE, !.op = op,
                                               !.id = pick_request.id + 1]
    /\ UNCHANGED <<pick_extracted, pick_target, pick_pending, pick_result, pick_pc>>
    /\ UNCHANGED <<tc_vars, rw_vars, sel_vars, pk_vars>>
    /\ UNCHANGED <<gpu, gpu_pc, radix_pipelines, sort_in, entity, main_world, gs_vars>>

\* poll_pick_results; try_lock can fail only while the render world is
\* running
PollPickResults ==
    /\ pick_pc.main = "poll"
    /\ \E locked \in {TRUE, pick_pc.render = "idle"} :
       IF locked /\ pick_pending.ready
       THEN /\ pick_result' =
                 [pick_pending EXCEPT
                     !.splat_indices =
                         {decode(pick_pending.pixels[k]) :
                             k \in {j \in DOMAIN pick_pending.pixels :
                                       is_splat_index(pick_pending.pixels[j])}},
                     !.pixels = <<>>]
            /\ pick_pending' = [pick_pending EXCEPT !.ready = FALSE, !.pixels = <<>>]
       ELSE UNCHANGED <<pick_result, pick_pending>>
    /\ pick_pc' = [pick_pc EXCEPT !.main = "apply"]
    /\ UNCHANGED <<pick_request, pick_extracted, pick_target>>
    /\ UNCHANGED <<tc_vars, rw_vars, sel_vars, pk_vars>>
    /\ UNCHANGED <<gpu, gpu_pc, radix_pipelines, sort_in, entity, main_world, gs_vars>>

\* apply_pick_results, the request having no target entity: the result is
\* applied to the first entity with a SplatSelectionState
ApplyPickPassResults ==
    /\ pick_pc.main = "apply"
    /\ ~panicked
    /\ IF pick_result.ready
       THEN LET r == apply_pick_results(sel, pick_result.op,
                                        pick_result.splat_indices, overflow_checks)
            IN /\ sel' = r.s
               /\ panicked' = r.panic
               /\ last_op' = "apply_pick_results"
               /\ last_pick' = [op |-> pick_result.op,
                                hits |-> {idx \in pick_result.splat_indices :
                                             idx < NumSplats},
                                applied |-> TRUE]
               /\ pick_result' = [pick_result EXCEPT !.ready = FALSE,
                                                     !.splat_indices = {}]
               /\ pick_request' = [pick_request EXCEPT !.active = FALSE,
                                                       !.applied = pick_result.id]
       ELSE UNCHANGED <<sel, panicked, last_op, last_pick, pick_result, pick_request>>
    /\ pick_pc' = [pick_pc EXCEPT !.main = "extract"]
    /\ UNCHANGED <<pick_extracted, pick_target, pick_pending, overflow_checks>>
    /\ UNCHANGED <<tc_vars, rw_vars, pk_vars>>
    /\ UNCHANGED <<gpu, gpu_pc, radix_pipelines, sort_in, entity, main_world, gs_vars>>

\* extract_pick_request, run when the main world has finished its frame and
\* the render world its own; after it the main world runs its system
\* main_system while the render world renders
extract_pick_request(main_system) ==
    /\ pick_pc = Frame("extract")
    /\ pick_extracted' = IF pick_request.active
                         THEN [pick_request EXCEPT !.applied = 0]
                         ELSE NoPickRequest
    /\ pick_pc' = [main |-> main_system, render |-> "prepare"]
    /\ UNCHANGED <<pick_request, pick_target, pick_pending, pick_result>>
    /\ UNCHANGED <<tc_vars, rw_vars, sel_vars, pk_vars>>
    /\ UNCHANGED <<gpu, gpu_pc, radix_pipelines, sort_in, entity, main_world, gs_vars>>

\* the main world waits for the end of the render frame
ExtractPickRequest == extract_pick_request("wait")

\* pipelined rendering: the main world runs its next frame during the render
\* frame
ExtractPickRequestPipelined == extract_pick_request("poll")

\* prepare_pick_render_target for a view: nothing without an active request;
\* a target of another size, or none, is replaced by one with new textures
\* and a new staging buffer; otherwise the target takes the request
PreparePickRenderTarget ==
    /\ pick_pc.render = "prepare"
    /\ IF ~pick_extracted.active
       THEN UNCHANGED pick_target
       ELSE \E needs_recreate \in IF pick_target.some THEN BOOLEAN ELSE {TRUE} :
               pick_target' = [some |-> TRUE,
                               pick_active |-> pick_extracted.active,
                               op |-> pick_extracted.op,
                               id |-> pick_extracted.id,
                               staging |-> IF needs_recreate THEN FreshStaging
                                           ELSE pick_target.staging]
    /\ pick_pc' = [pick_pc EXCEPT !.render = "node"]
    /\ UNCHANGED <<pick_request, pick_extracted, pick_pending, pick_result>>
    /\ UNCHANGED <<tc_vars, rw_vars, sel_vars, pk_vars>>
    /\ UNCHANGED <<gpu, gpu_pc, radix_pipelines, sort_in, entity, main_world, gs_vars>>

\* GaussianSplatNode::run, step 5, which only a node that gets to its encoder
\* records: with an active target the pick pass draws the entities into the
\* pick texture, tex[k] being the value the pass leaves in pixel k of the
\* rectangle, and the rectangle is copied to the staging buffer
PickPass ==
    /\ pick_pc.render = "node"
    /\ \E path \in NodePaths :
          IF path = "render" /\ pick_target.some /\ pick_target.pick_active
          THEN \E tex \in [1..RectPixels -> 0..NumSplats] :
                  pick_target' =
                     [pick_target EXCEPT !.staging =
                         [written_for |-> pick_target.id,
                          pixels |-> [k \in 1..RectPixels |-> pack_index(tex[k])],
                          drawn |-> {tex[k] - 1 : k \in {j \in 1..RectPixels :
                                                           tex[j] > 0}}]]
          ELSE UNCHANGED pick_target
    /\ pick_pc' = [pick_pc EXCEPT !.render = "cleanup"]
    /\ UNCHANGED <<pick_request, pick_extracted, pick_pending, pick_result>>
    /\ UNCHANGED <<tc_vars, rw_vars, sel_vars, pk_vars>>
    /\ UNCHANGED <<gpu, gpu_pc, radix_pipelines, sort_in, entity, main_world, gs_vars>>

\* execute_pick_readback: with an active target and the Arc of an extracted
\* request, the staging buffer is mapped and the pixels of the rectangle go
\* to the pending data
ExecutePickReadback ==
    /\ pick_pc.render = "cleanup"
    /\ IF pick_target.some /\ pick_target.pick_active /\ pick_extracted.active
       THEN pick_pending' = [ready |-> TRUE,
                             pixels |-> pick_target.staging.pixels,
                             splat_indices |-> {},
                             op |-> pick_target.op,
                             id |-> pick_extracted.id,
                             written_for |-> pick_target.staging.written_for,
                             drawn |-> pick_target.staging.drawn]
       ELSE UNCHANGED pick_pending
    /\ pick_pc' = [main |-> IF pick_pc.main = "wait" THEN "poll" ELSE pick_pc.main,
                   render |-> "idle"]
    /\ UNCHANGED <<pick_request, pick_extracted, pick_target, pick_result>>
    /\ UNCHANGED <<tc_vars, rw_vars, sel_vars, pk_vars>>
    /\ UNCHANGED <<gpu, gpu_pc, radix_pipelines, sort_in, entity, main_world, gs_vars>>

(***************************************************************************)
(* Specifications                                                          *)
(***************************************************************************)

\* the state after the construction of the plugin's resources
Constructed ==
    /\ cache = DefaultCache
    /\ config = DefaultConfig
    /\ camera = NoCamera
    /\ call = NoCall
    /\ resort_pos = DefaultCache.last_camera_pos
    /\ pc = "main"
    /\ temporal_cache = DefaultCache
    /\ viewport = NoView
    /\ render_cache = DefaultRenderCache
    /\ cache_written = FALSE
    /\ drawable = {}
    /\ preview_ready = FALSE
    /\ blit_ready = FALSE
    /\ cull_ready = FALSE
    /\ node = IdleNode
    /\ sel = NewSelection
    /\ last_op = "new"
    /\ last_pick = NoPick
    /\ panicked = FALSE
    /\ overflow_checks \in BOOLEAN
    /\ picker_request = NoRequest
    /\ picker_pending = NoPending
    /\ picker_result = NoResult
    /\ extracted_request = NoExtracted
    /\ render_state = NoRenderState
    /\ selection_capacity = 0
    /\ ppc = "setup"
    /\ render_pc = "idle"
    /\ picks = 0
    /\ mapping = "none"
    /\ request_at_finish = FALSE
    /\ gpu = NoBuffers
    /\ gpu_pc = Idle
    /\ radix_pipelines = {}
    /\ sort_in = NoSort
    /\ entity = NoEntity
    /\ main_world = NoUpdate
    /\ pick_request = NoPickRequest
    /\ pick_extracted = NoPickRequest
    /\ pick_target = NoPickTarget
    /\ pick_pending = NoPickData
    /\ pick_result = NoPickData
    /\ pick_pc = Frame("poll")

\* no call of GaussianSplats::new is followed
NoNew == new_args = NoArgs /\ splats = NoSplats

\* the plugin's resources, and no GaussianSplats::new in progress
Init == Constructed /\ NoNew

\* The main-world system alone, over every pose and configuration
UpdateCache ==
    /\ update_temporal_coherence_cache(Poses, Configs)
    /\ UNCHANGED rw_vars
    /\ UNCHANGED sel_vars
    /\ UNCHANGED <<pk_vars, gpu_vars>>

Next == UpdateCache

Spec == Init /\ [][Next]_vars

\* The main-world system of an application whose TemporalCoherenceConfig is
\* enabled, holds one force_resort_interval from 0 to ForceInterval for all
\* its frames, and has a max_skip_frames that no streak of the model reaches
ForceConfig(k) == [DefaultConfig EXCEPT !.force_resort_interval = k,
                                        !.max_skip_frames = MaxFrames]

ForceUpdate ==
    /\ \E k \in 0..ForceInterval :
          /\ cache.frame_count = 0 \/ config = ForceConfig(k)
          /\ update_temporal_coherence_cache(Poses, {ForceConfig(k)})
    /\ UNCHANGED rw_vars
    /\ UNCHANGED sel_vars
    /\ UNCHANGED <<pk_vars, gpu_vars>>

ForceSpec == Init /\ [][ForceUpdate]_vars

\* The frame pipeline: PostUpdate system, extract, prepare, render node
FramePoses == {[pos |-> 0, dir |-> 0, up |-> 0], [pos |-> MaxPos, dir |-> 0, up |-> 0]}
FrameConfigs == {DefaultConfig, DisabledConfig}

FrameUpdate ==
    /\ pc = "main"
    /\ update_temporal_coherence_cache(FramePoses, FrameConfigs)
    /\ pc' = "extract"
    /\ node' = IdleNode
    /\ UNCHANGED <<temporal_cache, viewport, render_cache, cache_written,
                   drawable, preview_ready, blit_ready, cull_ready>>
    /\ UNCHANGED sel_vars
    /\ UNCHANGED <<pk_vars, gpu_vars>>

FrameNext == FrameUpdate \/ Extract \/ PrepareRenderCache \/ PrepareEntities \/ NodeRun

FrameSpec == Init /\ [][FrameNext]_vars

\* The selection state alone, under every sequence of its operations
SelNext ==
    \/ Select \/ Deselect \/ SetSelection
    \/ SelectAll \/ DeselectAll \/ InvertSelection
    \/ DeleteSelected \/ UndeleteAll
    \/ LockSelected \/ UnlockAll
    \/ ApplyPickResults

SelSpec == Init /\ [][SelNext]_vars

\* The compute picker with both worlds running, and the operations that lock
\* and delete what was picked
PickNext ==
    \/ RequestPick \/ ClearRequest
    \/ SetupPickerPending \/ PollPickerReadback \/ ApplyPickerResults
    \/ ExtractPickerRequest \/ PrepareSelectionResources \/ PrepareSelectionBindGroups
    \/ ExecuteSelectionCompute
    \/ LockSelected \/ DeleteSelected

PickSpec == Init /\ [][PickNext]_vars

\* The compute picker with requests for two entities and buffers that are
\* reallocated
TargetNext ==
    \/ RequestPickOfAny \/ ClearRequest
    \/ SetupPickerPending \/ PollPickerReadback \/ ApplyPickerResults
    \/ ExtractPickerRequest \/ PrepareSelectionResources \/ PrepareSelectionBindGroups
    \/ ExecuteSelectionCompute
    \/ ReallocateBuffers

TargetSpec == Init /\ [][TargetNext]_vars

\* The compute picker with requests for an entity with or without splats,
\* none of them cancelled
IdleNext ==
    \/ RequestPickOfAnySize
    \/ SetupPickerPending \/ PollPickerReadback \/ ApplyPickerResults
    \/ ExtractPickerRequest \/ PrepareSelectionResources \/ PrepareSelectionBindGroups
    \/ ExecuteSelectionCompute

IdleSpec == Init /\ [][IdleNext]_vars

\* Frames keep running; the selection pipeline is compiled in the end and a
\* mapping succeeds in the end; the buffers of an entity that has splats are
\* prepared in the end; try_lock does not fail for ever
IdleFairness ==
    /\ WF_vars(IdleNext)
    /\ SF_vars(PollPickerReadback /\ picker_pending' = NoPending)
    /\ SF_vars(ExecuteSelectionCompute /\ mapping' = "ok")
    /\ SF_vars(PrepareSelectionBindGroups
                 /\ (extracted_request.num_splats # 0 => render_state'.bind_group # "none"))

IdleLiveSpec == IdleSpec /\ IdleFairness

\* The GPU work of the frames of one entity: buffers, cull, radix sort, draw
SortNext ==
    \/ DetectDataUpdate
    \/ ExtractSplats
    \/ PreparePipelines
    \/ CompileRenderPipeline
    \/ PrepareBuffers
    \/ UpdateBufferContents
    \/ PrepareBindGroup
    \/ PrepareCullBindGroup
    \/ PrepareRadixSortBindGroups
    \/ CompilePipeline
    \/ CompileCullPipeline
    \/ BeginCull
    \/ CullThread
    \/ EndCullPass
    \/ Upsweep
    \/ Spine
    \/ Downsweep
    \/ DrawIndirect

\* The frames of an application that updates the splats of the entity
BufferNext == SortNext \/ InsertBuffersNeedUpdate

\* The GPU work does not depend on the overflow checks of the build. The
\* splats of SortSpec are never updated after their extraction; those of
\* BufferSpec may be updated before any frame.
SortInit == Constructed /\ ~overflow_checks /\ NoNew
BufferInit == Init /\ ~overflow_checks

\* The frames of an application that picks splats with the pick pass
PickPassNext ==
    \/ RequestPickPass
    \/ PollPickResults \/ ApplyPickPassResults
    \/ ExtractPickRequest \/ PreparePickRenderTarget
    \/ PickPass \/ ExecutePickReadback

PickPassSpec == Init /\ [][PickPassNext]_vars

\* The pick pass under pipelined rendering
PipelinedNext ==
    \/ RequestPickPass
    \/ PollPickResults \/ ApplyPickPassResults
    \/ ExtractPickRequestPipelined \/ PreparePickRenderTarget
    \/ PickPass \/ ExecutePickReadback

PipelinedSpec == Init /\ [][PipelinedNext]_vars

\* One call of GaussianSplats::new on vectors of every length
NewInit ==
    /\ Constructed /\ ~overflow_checks
    /\ new_args \in Args /\ splats = NoSplats
NewSpec == NewInit /\ [][New]_vars

\* The methods of one store, made by new from vectors of one length or by
\* with_capacity
StoreInit ==
    /\ Constructed /\ ~overflow_checks
    /\ \E n \in 0..MaxVec : new_args = [f \in Fields |-> n]
    /\ splats = NoSplats
StoreNext ==
    \/ New
    \/ WithCapacity
    \/ WithAntialiased
    \/ Merge
    \/ UpdateData
    \/ DuplicateSelected
    \/ ClearSplats
StoreSpec == StoreInit /\ [][StoreNext]_vars

SortSpec == SortInit /\ [][SortNext]_vars

\* The frames of an application that changes the RenderingConfig, as long as
\* the radix sort pipelines are not compiled
DrawableNext ==
    \/ DetectDataUpdate
    \/ ExtractSplats
    \/ ChangeRenderingConfig
    \/ PreparePipelines
    \/ CompileRenderPipeline
    \/ PrepareBuffers
    \/ UpdateBufferContents
    \/ PrepareBindGroup
    \/ PrepareCullBindGroup
    \/ PrepareRadixSortBindGroups
    \/ CompileCullPipeline
    \/ BeginCull
    \/ CullThread
    \/ EndCullPass
    \/ Upsweep
    \/ Spine
    \/ Downsweep
    \/ DrawIndirect
DrawableSpec == SortInit /\ [][DrawableNext]_vars
BufferSpec == BufferInit /\ [][BufferNext]_vars


(***************************************************************************)
(* Claims about temporal coherence and the render cache                    *)
(***************************************************************************)

\* the camera is within the thresholds of the reference pose stored in c
WithinThresholds(c, cfg, cam) ==
    /\ Distance(cam.pos, c.last_camera_pos) <= cfg.position_threshold
    /\ Dot(cam.dir, c.last_camera_dir) >= cfg.direction_threshold
    /\ Dot(cam.up, c.last_camera_up) >= cfg.direction_threshold

\* the node ran for the current frame
NodeRan == node.path \notin {"idle", "no_view"}

\* the node did not elide cull and sort on temporal-coherence grounds
NoElision ==
    /\ ~node.skip_sorting
    /\ node.path # "cache_blit"
    /\ (node.path = "render" /\ cull_ready) => (node.cull /\ node.sort)

\* C1: in a frame whose data_updated_this_frame is true, should_skip_sorting
\* returns false and leaves skip_count = 0, should_skip_render is false for
\* every camera pose, and the render node neither elides cull/sort nor takes
\* the cache-blit path.
C1_DataUpdateForcesSort ==
    /\ (cache.data_updated_this_frame /\ call.branch # "no_call")
          => /\ ~call.ret
             /\ cache.skip_count = 0
             /\ ~cache.sorting_skipped
             /\ \A p \in FramePoses : ~should_skip_render(cache, config, p)
    /\ (temporal_cache.data_updated_this_frame /\ NodeRan) => NoElision

\* C1 witness: a data update arrives with the camera on the reference pose,
\* only training entities drawable and a usable cache; the node culls and sorts.
C1_Witness ==
    /\ temporal_cache.data_updated_this_frame
    /\ call.branch = "data"
    /\ node.path = "render" /\ node.cull /\ node.sort
    /\ node.entities = {"e1"}
    /\ blit_ready

\* C2 (as stated): should_skip_sorting returns true iff data did not update,
\* the camera is within the thresholds of the reference pose and the skip
\* streak stays within max_skip_frames.
C2_AsStated ==
    [][(pc = "main" /\ call'.branch # "no_call") =>
        (call'.ret <=> /\ ~cache'.data_updated_this_frame
                       /\ WithinThresholds(cache, config', camera')
                       /\ cache.skip_count < config'.max_skip_frames)]_vars

\* C2 (amended): should_skip_sorting returns true iff it is not the first
\* call, the configuration is enabled, data did not update, the frame is not a
\* forced-resort frame, skip_count is below max_skip_frames and the camera is
\* within the thresholds of the reference pose.
C2_SkipIff ==
    [][(pc = "main" /\ call'.branch # "no_call") =>
        (call'.ret <=> /\ cache.frame_count # 0
                       /\ config'.enabled
                       /\ ~cache'.data_updated_this_frame
                       /\ ~ /\ config'.force_resort_interval > 0
                            /\ (cache.frame_count + 1) % config'.force_resort_interval = 0
                       /\ cache.skip_count < config'.max_skip_frames
                       /\ WithinThresholds(cache, config', camera'))]_vars

\* C2 witness: a skip with the camera exactly position_threshold away from
\* the reference pose and turned exactly to the direction threshold.
C2_Witness ==
    /\ call.ret
    /\ Distance(camera.pos, cache.last_camera_pos) = config.position_threshold
    /\ Dot(camera.dir, cache.last_camera_dir) = config.direction_threshold


C6_SkipNearLastResort ==
    call.ret => Distance(camera.pos, resort_pos) <= config.position_threshold

\* C7: the render cache is valid only if a splat pass has written the cache
\* texture since it was last recreated or invalidated, and a cache that was
\* not written is never blitted.
C7_ValidOnlyIfWritten ==
    /\ render_cache.valid => cache_written
    /\ (node.path = "cache_blit" /\ node.blit) => cache_written

\* C8: in a frame where data was updated or the viewport size differs from the
\* cache size, the cache is invalid when the node runs, and after a resize to
\* a non-empty size the cache texture has the new size.
C8_InvalidOnUpdateOrResize ==
    [][(pc = "prepare" /\ viewport # NoView) =>
        LET resized == \/ render_cache.width # viewport.w
                       \/ render_cache.height # viewport.h
        IN  /\ (temporal_cache.data_updated_this_frame \/ resized)
                  => ~render_cache'.valid
            /\ (resized /\ viewport.w > 0 /\ viewport.h > 0)
                  => /\ render_cache'.texture
                     /\ render_cache'.width = viewport.w
                     /\ render_cache'.height = viewport.h]_vars


(***************************************************************************)
(* Claims about the selection state                                        *)
(***************************************************************************)

\* C9: after any sequence of selection operations and applied pick results,
\* no splat has SELECTED set together with LOCKED or DELETED.
C9_SelectedNotLockedOrDeleted ==
    \A i \in DOMAIN sel.states :
        HasBit(sel.states[i], SELECTED) => Editable(sel.states[i])

\* C10: select, deselect, set_selection, select_all, deselect_all and
\* invert_selection leave the state byte of every locked splat unchanged.
C10_LockedUntouched ==
    [][last_op' \in {"select", "deselect", "set_selection",
                     "select_all", "deselect_all", "invert_selection"}
        => \A i \in DOMAIN sel.states :
              HasBit(sel.states[i], LOCKED) => sel'.states[i] = sel.states[i]]_vars

\* the cached counts of s equal the counts recomputed from s.states
CountsMatch(s) ==
    /\ s.num_selected = CountBit(s, SELECTED)
    /\ s.num_locked = CountBit(s, LOCKED)
    /\ s.num_deleted = CountBit(s, DELETED)

\* C11: after any select, deselect or set_selection call, from any reachable
\* selection state and with any index list, num_selected, num_locked and
\* num_deleted equal the counts recomputed from states.
C11_CountsMatchRecount ==
    [][last_op' \in {"select", "deselect", "set_selection"} => CountsMatch(sel')]_vars

\* the splats of s that are locked or deleted have the same state byte in t
LockedAndDeletedKept(s, t) ==
    \A i \in DOMAIN s.states :
        ~Editable(s.states[i]) => t.states[i] = s.states[i]

\* C12: applying a pick result with any op leaves the state byte of every
\* locked or deleted splat unchanged, in the compute-picker path
\* (apply_picker_results) and in the pick-pass path (apply_pick_results).
C12_PickKeepsLockedAndDeleted ==
    [][last_op' \in {"apply_picker_results", "apply_pick_results"}
        => LockedAndDeletedKept(sel, sel')]_vars

\* The compute-picker path alone keeps locked and deleted splats.
PickerKeepsLockedAndDeleted ==
    [][last_op' = "apply_picker_results" => LockedAndDeletedKept(sel, sel')]_vars

\* A pick was applied by the compute picker while a splat was locked or
\* deleted and another one changed.
PickerAppliedBesideLocked ==
    /\ last_op = "apply_picker_results"
    /\ \E i \in DOMAIN sel.states : ~Editable(sel.states[i])
    /\ \E i \in DOMAIN sel.states : HasBit(sel.states[i], SELECTED)

\* the splats with SELECTED set, and the splats neither locked nor deleted
SelectedSet(s) == {i \in DOMAIN s.states : HasBit(s.states[i], SELECTED)}
EditableSet(s) == {i \in DOMAIN s.states : Editable(s.states[i])}

\* SelectionOp / PickOp: the selection a hit set H makes of the selection S
PickOutcome(S, op, H) ==
    CASE op = "Set" -> H
      [] op = "Add" -> S \cup H
      [] op = "Remove" -> S \ H

\* the pick result last_pick was applied to s and gave t
PickApplied(s, t) ==
    /\ SelectedSet(t) \cap EditableSet(s) =
          PickOutcome(SelectedSet(s), last_pick'.op, last_pick'.hits) \cap EditableSet(s)
    /\ t.num_selected = Cardinality(SelectedSet(t))
    /\ t.dirty

\* C13: applying a pick result with hit set H to the selection S gives, over
\* the splats that are neither locked nor deleted, exactly H for Set, S \cup H
\* for Add and S \ H for Remove, on the compute-picker path and on the
\* pick-pass path; afterwards num_selected is the number of SELECTED splats
\* and dirty is true.
C13_PickOutcome ==
    [][/\ last_op' \in {"apply_picker_results", "apply_pick_results"}
       /\ last_pick'.applied
       => PickApplied(sel, sel')]_vars

\* the same for the compute-picker path alone
PickerOutcome ==
    [][last_op' = "apply_picker_results" /\ last_pick'.applied
       => PickApplied(sel, sel')]_vars
\* the same for the pick-pass path when the call returns
PickPassOutcomeOnReturn ==
    [][last_op' = "apply_pick_results" /\ last_pick'.applied /\ ~panicked'
       => PickApplied(sel, sel')]_vars
\* execute_selection_compute ran and map_async failed or timed out
MapFailed == render_pc = "execute" /\ render_pc' = "idle" /\ mapping' = "failed"

\* C14: if mapping the staging buffer fails or times out during a pick, the
\* pick is aborted: no result is applied and the selection is unchanged, and
\* the request is cleared so that the pick state machine is back in Idle (the
\* next extract finds no active request unless a new pick was requested).
C14_MapFailureAbortsPick ==
    [][/\ MapFailed => /\ picker_pending' = picker_pending
                       /\ picker_result' = picker_result
                       /\ sel' = sel
       /\ ppc = "extract" /\ ppc' = "setup" /\ mapping = "failed"
             => ~picker_request.active]_vars

\* the part of it that execute_selection_compute keeps: no result is handed
\* over and the selection is unchanged
MapFailureAppliesNothing ==
    [][MapFailed => /\ picker_pending' = picker_pending
                    /\ picker_result' = picker_result
                    /\ sel' = sel]_vars
\* apply_picker_results runs
ApplyStep == ppc = "apply" /\ ppc' = "extract"

\* C15: a pick request that is cleared before the extract stage never causes
\* a selection change (the picker changes the selection only after an extract
\* found an active request); and when the request is absent at the time an
\* already dispatched compute finishes, and still absent when its result
\* arrives, the result is ignored rather than applied to the selection.
C15_CancelledPickIgnored ==
    [][ApplyStep =>
          /\ render_state.pending_readback = "none" => sel' = sel
          /\ ~request_at_finish /\ ~picker_request.active => sel' = sel]_vars

\* the first part alone
NoExtractNoSelectionChange ==
    [][ApplyStep /\ render_state.pending_readback = "none" => sel' = sel]_vars

\* a result is handed over under the op of the request that was dispatched
ResultOfDispatchedRequest ==
    [][/\ render_pc = "execute" /\ render_pc' = "idle"
       /\ picker_pending'.ready /\ picker_pending' # picker_pending
       => picker_pending'.op = extracted_request.op]_vars
(***************************************************************************)
(* Claims about the radix sort and the cull                                *)
(***************************************************************************)
\* execute_radix_sort has run its four passes with all three pipelines
SortDone ==
    /\ gpu_pc.at = "draw"
    /\ gpu_pc.pass = Passes
    /\ radix_pipelines = RadixStages
    /\ entity.cull_bind_group = "current"
    /\ entity.radix_sort_bind_groups = "current"

\* the input of the sort and its output, over the first instance_count slots
InputKeys == Prefix(sort_in.keys, sort_in.count)
InputValues == Prefix(sort_in.values, sort_in.count)
SortedKeys == Prefix(gpu.depth_keys, gpu.instance_count)
SortedValues == Prefix(gpu.visible_indices, gpu.instance_count)

\* C16: after the four passes of the radix sort (upsweep, spine, downsweep
\* per pass) the keys at positions 0..instance_count are in non-decreasing
\* order, for every input and every instance_count, also one that is not a
\* multiple of the partition size; so are the keys of the CPU reference.
C16_KeysSorted ==
    SortDone =>
       /\ is_sorted(SortedKeys)
       /\ is_sorted(cpu_radix_sort_reference(InputKeys, InputValues).keys)

\* a sort of unsorted keys that fill one partition and a part of the next
C16_Witness ==
    /\ SortDone
    /\ gpu.instance_count > BLOCK_SIZE
    /\ gpu.instance_count % BLOCK_SIZE # 0
    /\ ~is_sorted(InputKeys)
\* how often the pair (key, value) is in the buffers
PairCount(keys, values, key, value) ==
    Cardinality({i \in DOMAIN keys : keys[i] = key /\ values[i] = value})

\* the same pairs, each as often
SamePairs(keys, values, other_keys, other_values) ==
    /\ DOMAIN keys = DOMAIN other_keys
    /\ \A i \in DOMAIN keys :
          /\ PairCount(keys, values, keys[i], values[i])
             = PairCount(other_keys, other_values, keys[i], values[i])
          /\ PairCount(keys, values, other_keys[i], other_values[i])
             = PairCount(other_keys, other_values, other_keys[i], other_values[i])

\* C17: after the radix sort the multiset of (key, value) pairs at positions
\* 0..instance_count is the multiset of the input pairs: no pair is lost,
\* duplicated or re-paired with another key, also when keys repeat; the same
\* holds of the CPU reference, and verify_permutation accepts both.
C17_PairsPreserved ==
    SortDone =>
       LET cpu == cpu_radix_sort_reference(InputKeys, InputValues)
       IN /\ gpu.instance_count = sort_in.count
          /\ SamePairs(SortedKeys, SortedValues, InputKeys, InputValues)
          /\ SamePairs(cpu.keys, cpu.values, InputKeys, InputValues)
          /\ verify_permutation(InputKeys, InputValues, SortedKeys, SortedValues)
          /\ verify_permutation(InputKeys, InputValues, cpu.keys, cpu.values)

\* a sort that moves pairs of which two have the same key
C17_Witness ==
    /\ SortDone
    /\ \E i, j \in DOMAIN InputKeys : i # j /\ InputKeys[i] = InputKeys[j]
    /\ SortedValues # InputValues
\* the pair at slot i of the input is at an earlier slot of the output than
\* the pair at slot j of the input
KeepsOrder(keys, values, out_keys, out_values, i, j) ==
    \E p, q \in DOMAIN out_keys :
       /\ p < q
       /\ out_keys[p] = keys[i] /\ out_values[p] = values[i]
       /\ out_keys[q] = keys[j] /\ out_values[q] = values[j]

\* elements with equal keys are in the output in their input order
Stable(keys, values, out_keys, out_values) ==
    \A i, j \in DOMAIN keys :
       i < j /\ keys[i] = keys[j]
          => KeepsOrder(keys, values, out_keys, out_values, i, j)

\* the downsweep of a pass with all three pipelines: elements with the same
\* digit are scattered in their input order, whatever their partitions
PassStable ==
    gpu_pc.at = "downsweep" /\ radix_pipelines = RadixStages =>
       LET pass == gpu_pc.pass
           n == gpu.instance_count
           keys == Prefix(keys_in(gpu, pass), n)
           values == Prefix(values_in(gpu, pass), n)
           out_keys == Prefix(keys_in(gpu', pass + 1), n)
           out_values == Prefix(values_in(gpu', pass + 1), n)
       IN \A i, j \in DOMAIN keys :
             i < j /\ Digit(keys[i], pass) = Digit(keys[j], pass)
                => KeepsOrder(keys, values, out_keys, out_values, i, j)

\* C18: the radix sort is stable. In every pass two elements with the same
\* digit keep their input order, within a partition and across partitions;
\* so after the four passes elements with equal keys are in their input
\* order, and an input that is already sorted comes back with its values in
\* the identical order. The CPU reference gives the same order of values.
C18_Stable ==
    /\ [][PassStable]_vars
    /\ [](SortDone =>
             LET cpu == cpu_radix_sort_reference(InputKeys, InputValues)
             IN /\ Stable(InputKeys, InputValues, SortedKeys, SortedValues)
                /\ Stable(InputKeys, InputValues, cpu.keys, cpu.values)
                /\ SortedValues = cpu.values
                /\ is_sorted(InputKeys)
                      => SortedValues = InputValues /\ cpu.values = InputValues)

\* a sort of unsorted keys of which two in different partitions are equal
C18_Witness ==
    /\ SortDone
    /\ ~is_sorted(InputKeys)
    /\ \E i, j \in DOMAIN InputKeys :
          /\ i \div BLOCK_SIZE # j \div BLOCK_SIZE
          /\ InputKeys[i] = InputKeys[j]

\* a sort of sorted keys of which two in the same partition are equal
C18_SortedInput ==
    /\ SortDone
    /\ is_sorted(InputKeys)
    /\ InputValues # [i \in DOMAIN InputValues |-> i]
    /\ \E i, j \in DOMAIN InputKeys :
          /\ i # j
          /\ i \div BLOCK_SIZE = j \div BLOCK_SIZE
          /\ InputKeys[i] = InputKeys[j]
\* instance_count is at most N and the first instance_count entries of
\* visible_indices are splat indices below N
InRange(g) ==
    /\ g.instance_count <= g.point_count
    /\ \A i \in DOMAIN g.visible_indices :
          i < g.instance_count => g.visible_indices[i] \in 0..(g.point_count - 1)

\* C19: whenever the radix sort or the draw reads them (after the cull pass
\* of the frame, or in a frame without a cull: before the first cull has run,
\* after N has changed through an update), instance_count is at most N and
\* every entry of visible_indices[0..instance_count] is a splat index in
\* [0, N), for every interleaving of the cull threads.
C19_IndicesInRange ==
    gpu.some /\ gpu_pc.at \in {"upsweep", "spine", "downsweep", "draw"} => InRange(gpu)

\* the part of C19 that holds: in a frame whose cull has run, during the cull
\* and the sort and at the draw
IndicesInRangeAfterCull ==
    \/ gpu_pc.at \in {"cull", "upsweep", "spine", "downsweep"}
    \/ gpu_pc.at = "draw" /\ gpu_pc.pass = Passes
    => InRange(gpu)

\* the part of C19 that holds: new buffers are in range, and no step but an
\* update that changes N takes the buffers out of range
IndicesInRangeUnlessResized ==
    [][/\ gpu'.some
       /\ gpu.some => InRange(gpu) /\ gpu'.point_count = gpu.point_count
       => InRange(gpu')]_vars
\* the node has collected the entity and records or runs its passes
InNode == gpu_pc.at \in {"cull", "upsweep", "spine", "downsweep", "draw"}

\* C20: when an update finds N greater than the buffer capacity the buffers
\* are dropped and the entity is not drawn that frame; it is drawn again only
\* after new buffers sized for N exist and its render, cull and radix sort
\* bind groups have been rebuilt from those buffers, never with bind groups
\* that reference the dropped buffers.
C20_DroppedBuffersNeverBound ==
    InNode =>
       /\ gpu.some
       /\ gpu.point_count <= gpu.buffer_capacity
       /\ entity.bind_group = "current"
       /\ entity.cull_bind_group = "current"
       /\ entity.radix_sort_bind_groups = "current"

\* the part of C20 that holds: without buffers the entity is not drawn, also
\* in the frame of the drop, and the buffers it is drawn with are sized for
\* the N of its splats
DrawnWithBuffersForN ==
    InNode =>
       /\ gpu.some
       /\ gpu.point_count = entity.splats
       /\ gpu.point_count <= gpu.buffer_capacity

\* the part of C20 that holds: the step that drops the buffers is followed by
\* no pass of the node in that frame
DropFrameNotDrawn ==
    [][gpu_pc.at = "node" /\ ~gpu.some => gpu_pc' = Idle]_vars

\* the buffers have been dropped and created again, and the entity is drawn
RedrawnAfterDrop ==
    /\ gpu_pc.at = "draw"
    /\ "dropped" \in {entity.bind_group, entity.cull_bind_group,
                      entity.radix_sort_bind_groups}

\* the fields of a selection state that the claims compare
Outcome(s) == <<s.states, s.num_selected, s.num_locked, s.num_deleted>>

\* C22: delete_selected is idempotent: in every reachable selection state,
\* and in particular in the state a call of delete_selected has just left,
\* two calls leave states[], num_selected, num_locked and num_deleted equal
\* to what one call leaves.
C22_DeleteSelectedIdempotent ==
    /\ Outcome(delete_selected(delete_selected(sel))) = Outcome(delete_selected(sel))
    /\ last_op = "delete_selected" => Outcome(delete_selected(sel)) = Outcome(sel)

\* a call of delete_selected has deleted a selected splat, one that was
\* deleted before among them
C22_Witness ==
    /\ last_op = "delete_selected"
    /\ sel.num_deleted > CountBit(sel, DELETED)

AllNormal(s) == \A i \in DOMAIN s.states : s.states[i] = NORMAL
\* the splats that a list of indices names
Named(indices) == {indices[k] : k \in DOMAIN indices} \cap SplatIds

\* select(S) applied to an all-normal state has left a, with S the selected
\* splats of a: delete_selected and undelete_all give what C23 says
DeleteThenUndelete(a) ==
    LET S == {i \in DOMAIN a.states : HasBit(a.states[i], SELECTED)}
        b == delete_selected(a)
        c == undelete_all(b)
    IN /\ \A i \in DOMAIN b.states :
             b.states[i] = IF i \in S THEN DELETED ELSE NORMAL
       /\ b.num_selected = 0
       /\ b.num_deleted = Cardinality(S)
       /\ AllNormal(c)
       /\ c.num_deleted = 0
       /\ c.num_selected = 0

\* C23: from an all-normal state, select(S) followed by delete_selected
\* gives DELETED exactly on the splats of S, with num_selected = 0 and
\* num_deleted = |S|; a following undelete_all restores the all-zero state
\* with num_deleted = 0.
C23_SelectDeleteUndelete ==
    [][/\ AllNormal(sel) /\ last_op' = "select"
          => \E indices \in IndexLists :
                /\ sel' = select(sel, indices)
                /\ \A i \in SplatIds :
                      HasBit(sel'.states[i], SELECTED) <=> i \in Named(indices)
                /\ DeleteThenUndelete(sel')
       /\ last_op = "select" /\ last_op' = "delete_selected"
             /\ (\A i \in SplatIds : sel.states[i] \in {NORMAL, SELECTED})
          => /\ Outcome(sel') = Outcome(delete_selected(sel))
             /\ \A i \in SplatIds :
                   sel'.states[i] = IF HasBit(sel.states[i], SELECTED)
                                    THEN DELETED ELSE NORMAL
             /\ sel'.num_deleted = CountBit(sel, SELECTED)
             /\ Outcome(undelete_all(sel')) = Outcome(NewSelection)]_vars

\* select and then delete_selected have deleted every splat of a state that
\* was all-normal
C23_Witness ==
    /\ last_op = "delete_selected"
    /\ \A i \in SplatIds : sel.states[i] = DELETED
    /\ sel.num_deleted = NumSplats
    /\ sel.num_selected = 0

\* every splat is locked
AllLocked(s) == \A i \in DOMAIN s.states : HasBit(s.states[i], LOCKED)

\* C24: after every splat has been locked by select_all followed by
\* lock_selected, a select_all yields num_selected = 0 and num_locked = N,
\* with no SELECTED bit set.
C24_SelectAllAfterLockAll ==
    [][last_op = "select_all" /\ last_op' = "lock_selected" /\ AllLocked(sel')
       => LET r == select_all(sel') IN
          /\ r.num_selected = 0
          /\ r.num_locked = NumSplats
          /\ CountBit(r, SELECTED) = 0]_vars

\* the part of C24 that holds: select_all after select_all and lock_selected
\* selects nothing
NothingSelectedAfterLockAll ==
    [][last_op = "select_all" /\ last_op' = "lock_selected" /\ AllLocked(sel')
       => LET r == select_all(sel') IN
          /\ r.num_selected = 0
          /\ CountBit(r, SELECTED) = 0
          /\ r.num_locked = sel'.num_locked]_vars

\* what C30 says of a step of delete_selected or lock_selected that sets bit b
\* and keeps the count n of it
Transitioned(b, n) ==
    /\ \A i \in SplatIds :
          HasBit(sel.states[i], SELECTED)
             => HasBit(sel'.states[i], b) /\ ~HasBit(sel'.states[i], SELECTED)
    /\ sel'.num_selected = 0
    /\ n = CountBit(sel', b)

\* C30: after delete_selected (resp. lock_selected), from any reachable
\* selection state, every previously selected splat has DELETED (resp. LOCKED)
\* set and SELECTED cleared, num_selected is 0, and num_deleted (resp.
\* num_locked) equals the number of splats that have that bit set, also when a
\* selected splat was already deleted or locked.
C30_CountsAfterTransition ==
    [][/\ last_op' = "delete_selected" => Transitioned(DELETED, sel'.num_deleted)
       /\ last_op' = "lock_selected" => Transitioned(LOCKED, sel'.num_locked)]_vars

\* the part of C30 that holds: the bits and num_selected
BitsAfterTransition ==
    [][/\ last_op' = "delete_selected"
          => Transitioned(DELETED, CountBit(sel', DELETED))
       /\ last_op' = "lock_selected"
          => Transitioned(LOCKED, CountBit(sel', LOCKED))]_vars

\* C25: GaussianSplats::new fails, producing no store, whenever the length of
\* rotations, log_scales, sh_coeffs or raw_opacities differs from the length
\* of means, and succeeds with N = |means| and capacity N when all five
\* lengths are equal.
C25_NewChecksLengths ==
    [][LET equal == \A f \in Fields : new_args[f] = new_args.means IN
       /\ ~equal => splats'.panic /\ ~splats'.some
       /\ equal => /\ splats'.some /\ ~splats'.panic
                   /\ splats'.len = new_args.means
                   /\ splats'.stored_capacity = new_args.means]_vars

\* new has failed on vectors of which only the last differs in length
C25_Witness ==
    /\ splats.panic
    /\ new_args.raw_opacities # new_args.means
    /\ \A f \in Fields \ {"raw_opacities"} : new_args[f] = new_args.means

\* new has returned a store for vectors of one length
StoreCreated == splats.some /\ splats.len = MaxVec

\* a frame begins after the producer's last update has been uploaded
Uploaded == main_world.needs_update /\ ~main_world.pending
\* the step is the system that leaves the position at
StepOf(at) == gpu_pc.at = at /\ gpu_pc' # gpu_pc

\* C21: after the upload for an entity tagged BuffersNeedUpdate has succeeded
\* the tag is cleared, so in later frames with no new producer update the
\* entity is not re-extracted or re-uploaded and data_updated_this_frame is
\* false.
C21_TagClearedAfterUpload ==
    [][Uploaded /\ Uploaded'
       => /\ StepOf("idle") => ~cache'.data_updated_this_frame
          /\ StepOf("extract") => entity' = entity
          /\ StepOf("update") => ~entity.needs_update]_vars

\* the part of C21 that holds: the update removes the tag from a render
\* entity that has buffers, and an entity whose producer never tags it is
\* extracted once, is never uploaded again and leaves data_updated_this_frame
\* false after its first frame
RenderTagCleared ==
    [][/\ StepOf("update") /\ gpu.some => ~entity'.needs_update
       /\ ~main_world.needs_update /\ ~main_world'.needs_update /\ entity.splats # 0
          => /\ StepOf("idle") => ~cache'.data_updated_this_frame
             /\ StepOf("extract") => entity' = entity
             /\ StepOf("update") => ~entity.needs_update]_vars

\* a frame after the upload, with no producer update since, uploads again
UploadedAgain ==
    /\ Uploaded
    /\ gpu_pc.at = "update"
    /\ entity.needs_update
    /\ cache.data_updated_this_frame

\* the node had an entity to draw and no training preview to show
NodeDrew == NodeRan /\ node.path \notin {"preview", "no_entities"}
\* the node recorded no compute work and touched no sort buffer
NoCompute == ~node.cull /\ ~node.sort /\ node.cleared = {}

\* C26 as stated: in a frame where skip_sort holds but the cache-blit path is
\* not taken, no cull and no radix sort dispatch is recorded and the sort
\* buffers are left untouched, while the render pass into the cache and the
\* blit to the screen are still recorded; in a frame where skip_render holds
\* only the blit is recorded.
C26_SkipSortStillRenders ==
    /\ NodeDrew /\ skip_sorting(temporal_cache) /\ node.path # "cache_blit"
          => NoCompute /\ node.cache_pass /\ node.blit
    /\ NodeDrew /\ can_use_cache(node.entities, temporal_cache, render_cache)
          => NoCompute /\ ~node.cache_pass /\ node.blit

\* C26 (amended): in a frame where skip_sort holds no cull and no radix sort
\* dispatch is recorded and no sort buffer is cleared. If the cache-blit path
\* is not taken and the viewport is not empty, the render pass into the cache
\* is recorded, and the blit to the screen is recorded exactly if the blit
\* pipeline is compiled; with an empty viewport nothing is recorded. Where
\* skip_render holds with a compiled blit pipeline the cache-blit path is taken
\* and nothing but the blit is recorded, the blit itself only for a viewport
\* that is not empty.
C26_SkipSortElidesCompute ==
    /\ NodeDrew /\ skip_sorting(temporal_cache) => NoCompute
    /\ NodeDrew /\ skip_sorting(temporal_cache) /\ node.path # "cache_blit"
          => IF viewport.w > 0 /\ viewport.h > 0
             THEN /\ node.path = "render"
                  /\ node.cache_pass
                  /\ node.blit <=> blit_ready
             ELSE ~node.cache_pass /\ ~node.blit
    /\ NodeDrew /\ can_use_cache(node.entities, temporal_cache, render_cache)
            /\ blit_ready
          => /\ node.path = "cache_blit"
             /\ ~node.cache_pass
             /\ node.blit <=> (viewport.w > 0 /\ viewport.h > 0)

\* a frame of skip_sort outside the cache-blit path has recorded the render
\* pass into the cache and the blit, and no compute work
C26_Witness ==
    /\ node.path = "render"
    /\ skip_sorting(temporal_cache)
    /\ node.cache_pass /\ node.blit
    /\ cull_ready
    /\ NoCompute

\* skip_render holds and the cache pass is recorded, the blit is not
SkipRenderWithoutBlit ==
    /\ NodeDrew
    /\ can_use_cache(node.entities, temporal_cache, render_cache)
    /\ node.cache_pass /\ ~node.blit

\* apply_pick_results applies a ready result
PickApplyStep ==
    /\ pick_pc.main = "apply" /\ pick_pc'.main = "extract" /\ pick_result.ready

\* C27: a pick-pass result is applied to the selection only after, for that
\* same request, the pick pass was rendered into the pick texture and the pick
\* rectangle was copied to the staging buffer before the staging buffer was
\* mapped; a frame whose render node returns early never yields a result read
\* from a staging buffer that was not written for that request.
C27_ResultFromOwnPickPass ==
    [][PickApplyStep => pick_result.written_for = pick_result.id]_vars

\* the part of C27 that holds: a result is read only for a request that was
\* extracted and for which a pick target exists, and the staging buffer holds
\* the pass of the request of the target or none
ReadForExtractedRequest ==
    /\ pick_pending.ready \/ pick_result.ready
          => pick_target.some /\ pick_target.pick_active
    /\ pick_pending.ready => pick_pending.id \in 1..pick_request.id
    /\ pick_result.ready => pick_result.id \in 1..pick_request.id
    /\ pick_target.staging.written_for \in 0..pick_target.id

\* a result read from a staging buffer that no pick pass has written was
\* applied for the first request
UnwrittenStagingApplied ==
    /\ last_op = "apply_pick_results"
    /\ ~pick_result.ready
    /\ pick_result.id = 1
    /\ pick_result.written_for = 0

\* C28: each pick-texture pixel is decoded as a little-endian u32 v; v = 0 is
\* background and selects nothing, and v > 0 denotes the splat with 0-based
\* index v - 1, so applying the result changes exactly the splats that were
\* drawn inside the pick rectangle (the last splat, encoded as N, included)
\* and no neighbouring index.
C28_PickAppliesDrawnSplats ==
    [][PickApplyStep /\ pick_result.written_for = pick_result.id
       => SelectedSet(sel') =
             PickOutcome(SelectedSet(sel), pick_result.op, pick_result.drawn)]_vars

\* the part of C28 that holds: the bytes are decoded as a little-endian u32,
\* background selects nothing, and what is applied are the decoded values
\* below N, taken as indices as they are
DecodedAsWritten ==
    [][PickApplyStep /\ pick_result.written_for = pick_result.id
       => /\ pick_result.splat_indices = {i + 1 : i \in pick_result.drawn}
          /\ SelectedSet(sel') =
                PickOutcome(SelectedSet(sel), pick_result.op,
                            {v \in pick_result.splat_indices : v < NumSplats})]_vars

\* the pick pass drew splat 0 alone, and its result selected splat 1
NeighbourPicked ==
    /\ last_op = "apply_pick_results"
    /\ pick_result.written_for = pick_result.id
    /\ pick_result.drawn = {0}
    /\ pick_result.op = "Set"
    /\ SelectedSet(sel) = {1}

\* execute_radix_sort records the dispatch of a stage whose pipeline is compiled
RadixDispatch(stage) == StepOf(stage) /\ stage \in radix_pipelines

\* the (key, value) pairs that the downsweep of this step has written come from
\* positions below count of the input buffers of the pass
MovedFromBelow(count) ==
    LET pass == gpu_pc.pass
        keys_out == keys_in(gpu, pass + 1)
        values_out == values_in(gpu, pass + 1)
        keys_out_after == keys_in(gpu', pass + 1)
        values_out_after == values_in(gpu', pass + 1)
    IN \A slot \in DOMAIN keys_out_after :
          \/ /\ keys_out_after[slot] = keys_out[slot]
             /\ values_out_after[slot] = values_out[slot]
          \/ \E i \in DOMAIN keys_out : /\ i < count
                                        /\ keys_in(gpu, pass)[i] = keys_out_after[slot]
                                        /\ values_in(gpu, pass)[i] = values_out_after[slot]

\* upsweep counts in the histogram of the pass exactly count keys
CountedBelow(count) ==
    LET pass == gpu_pc.pass
        total(g) == SumTo([d \in 0..(RADIX - 1) |-> g.global_histogram[pass * RADIX + d]],
                          RADIX)
    IN total(gpu') - total(gpu) = count

\* C29: the element count used by every radix-sort dispatch of a frame is the
\* instance_count that this frame's cull pass wrote into the indirect-draw
\* record of the entity's buffers, not the capacity or the point count;
\* elements at positions at or beyond instance_count are never moved into the
\* sorted prefix, also after N has changed since the sort bind groups were
\* created.
C29_SortCountIsCullCount ==
    [][\A stage \in RadixStages :
          RadixDispatch(stage) =>
             /\ entity.radix_sort_bind_groups = "current"
             /\ gpu.instance_count = sort_in.count
             /\ stage = "upsweep" => CountedBelow(sort_in.count)
             /\ stage = "downsweep" => MovedFromBelow(sort_in.count)]_vars

\* the part of C29 that holds: a dispatch with bind groups built from the
\* entity's buffers counts and moves the elements below the instance_count of
\* this frame's cull, whatever point_count and buffer_capacity are
CurrentSortCountIsCullCount ==
    [][\A stage \in RadixStages :
          RadixDispatch(stage) /\ entity.radix_sort_bind_groups = "current" =>
             /\ gpu.instance_count = sort_in.count
             /\ stage = "upsweep" => CountedBelow(sort_in.count)
             /\ stage = "downsweep" => MovedFromBelow(sort_in.count)]_vars

\* a downsweep with the cull's count below a point_count that is itself below
\* the capacity of the buffers the bind groups were created for
SortedAfterNChanged ==
    /\ gpu_pc.at = "downsweep"
    /\ dispatched("downsweep")
    /\ sort_in.count > 0
    /\ sort_in.count < gpu.point_count
    /\ gpu.point_count < gpu.buffer_capacity

\* the sort is dispatched with bind groups of dropped buffers after a cull
\* that wrote the indirect record of the entity's new buffers
StaleSortAfterCurrentCull ==
    /\ gpu_pc.at = "upsweep"
    /\ "upsweep" \in radix_pipelines
    /\ entity.radix_sort_bind_groups = "dropped"
    /\ entity.cull_bind_group = "current"
    /\ sort_in.count > 0

(***************************************************************************)
(* Claims about the render state of the entity                             *)
(***************************************************************************)
\* the entity is collected by GaussianSplatNode::run
Drawable ==
    /\ gpu.some
    /\ entity.bind_group # "none"
    /\ entity.cull_bind_group # "none"
    /\ entity.radix_sort_bind_groups # "none"
    /\ entity.pipeline_id # "none"

\* the node takes the entity into its cull, its sort or its draw
TakesPart ==
    \/ gpu_pc.at = "node" /\ gpu_pc'.at \in {"cull", "draw"}
    \/ gpu_pc.at \in {"cull", "upsweep", "spine", "downsweep", "draw"} /\ gpu_pc' # gpu_pc

\* Frames follow each other, the PipelineCache compiles what is queued, and
\* the application has a 3D camera: a frame with a view and its uniform
\* binding comes again and again.
DrawableFairness ==
    /\ WF_vars(DrawableNext)
    /\ SF_vars(CompileRenderPipeline)
    /\ SF_vars(PreparePipelines /\ entity'.pipeline_id # "none")
    /\ SF_vars(PrepareBuffers /\ gpu'.some)
    /\ SF_vars(PrepareBindGroup /\ (pipeline_ready(entity.pipeline_id) => entity'.bind_group # "none"))
    /\ SF_vars(PrepareCullBindGroup /\ entity'.cull_bind_group # "none")
DrawableLiveSpec == DrawableSpec /\ DrawableFairness

\* C31: an entity takes part in a frame's cull, sort and draw only if it has
\* GPU buffers, a render bind group, a cull bind group, radix-sort bind groups
\* and a pipeline id; while its pipeline is not compiled it gets no bind group
\* and no draw, the attempt is repeated every frame, and once the pipeline is
\* compiled the entity eventually becomes drawable.
C31_DrawableOnlyWhenReady ==
    /\ [][/\ TakesPart => Drawable
          /\ StepOf("bind_group") /\ ~pipeline_ready(entity.pipeline_id)
                => entity'.bind_group = entity.bind_group
          /\ StepOf("draw") => (entity'.drawn <=> entity.pipeline_id = "compiled")]_vars
    /\ (entity.pipeline_id = "compiled") ~> Drawable

\* the RenderingConfig was changed, and the entity is drawable and was drawn
\* by the last node
C31_Witness ==
    /\ Drawable
    /\ entity.drawn
    /\ entity.config_changes = 1

\* a frame reached the draw of an entity whose new pipeline is not compiled
DrawSkippedWhileQueued ==
    /\ gpu_pc.at = "idle"
    /\ Drawable
    /\ entity.pipeline_id = "queued"
    /\ ~entity.drawn
    /\ entity.bind_group = "current"

(***************************************************************************)
(* Claims about the forced re-sort                                         *)
(***************************************************************************)
\* the update of this step called should_skip_sorting with an enabled config
\* of interval k > 0 at a frame_count that is a multiple of k
ForcedFrame ==
    /\ camera' # NoCamera
    /\ call' # NoCall
    /\ config'.enabled
    /\ config'.force_resort_interval > 0
    /\ cache'.frame_count # cache.frame_count
    /\ cache'.frame_count % config'.force_resort_interval = 0

\* the call of this step found no reason to sort but a forced re-sort
NothingButForce ==
    /\ camera' # NoCamera
    /\ call' # NoCall
    /\ config'.enabled
    /\ cache.frame_count # 0
    /\ ~cache'.data_updated_this_frame
    /\ cache.skip_count < config'.max_skip_frames
    /\ WithinThresholds(cache, config', camera')

\* C32: with temporal coherence enabled and force_resort_interval = k > 0,
\* every frame whose frame_count is a multiple of k re-sorts (skip_sort false,
\* skip_count reset to 0, reference pose updated) regardless of camera
\* movement, so no skip streak is longer than k - 1 frames; with k = 0 no
\* forced re-sort ever happens.
C32_ForcedResort ==
    /\ [][ForcedFrame => /\ ~call'.ret
                         /\ ~cache'.sorting_skipped
                         /\ cache'.skip_count = 0
                         /\ cache'.last_camera_pos = camera'.pos
                         /\ cache'.last_camera_dir = camera'.dir
                         /\ cache'.last_camera_up = camera'.up]_vars
    /\ [](config.enabled /\ config.force_resort_interval > 0
            => cache.skip_count <= config.force_resort_interval - 1)
    /\ [][NothingButForce /\ config'.force_resort_interval = 0 => call'.ret]_vars

\* the forced re-sort of frame k, with the camera at the pose of the default
\* cache
C32_Witness ==
    /\ call.branch = "force"
    /\ config.force_resort_interval = ForceInterval
    /\ cache.frame_count = ForceInterval
    /\ camera.pos = 0 /\ camera.dir = 0 /\ camera.up = 0

\* a streak of k - 1 skipped frames under the interval k
LongestStreak ==
    /\ call.ret
    /\ config.force_resort_interval = ForceInterval
    /\ cache.skip_count = ForceInterval - 1

\* without an interval the streak grows beyond ForceInterval
UnforcedStreak ==
    /\ call.ret
    /\ config.force_resort_interval = 0
    /\ cache.skip_count > ForceInterval

(***************************************************************************)
(* Claims about the store of splats                                        *)
(***************************************************************************)
\* the step is a call of clear on a store
Cleared == splats.some /\ splats' # splats /\ splats'.op = "clear"

\* C33: clear() removes all splats and leaves capacity() and antialiased as
\* they were immediately before the call, for any store reachable through
\* new, with_capacity, merge, update_data and duplicate_selected (a store that
\* has grown beyond its stored capacity included).
C33_ClearKeepsCapacity ==
    [][Cleared => /\ splats'.len = 0
                  /\ capacity(splats') = capacity(splats)
                  /\ splats'.antialiased = splats.antialiased]_vars

\* the part of C33 that holds: clear removes all splats and leaves antialiased
\* and the stored capacity; capacity() is kept by the clear of a store that
\* has not grown beyond its stored capacity
ClearKeepsStoredCapacity ==
    [][Cleared => /\ splats'.len = 0
                  /\ splats'.stored_capacity = splats.stored_capacity
                  /\ splats'.antialiased = splats.antialiased
                  /\ splats.len <= splats.stored_capacity
                        => capacity(splats') = capacity(splats)]_vars

\* a store that merge has grown beyond its stored capacity was cleared
GrownStoreCleared ==
    /\ splats.some
    /\ splats.op = "clear"
    /\ splats.antialiased
    /\ splats.stored_capacity = MaxVec

(***************************************************************************)
(* Claims about the target of a compute-picker request                     *)
(***************************************************************************)
\* apply_picker_results applies a result: it is ready, not applied yet and
\* has a target
AppliesResult ==
    /\ ApplyStep
    /\ picker_result.ready /\ ~picker_result.applied /\ picker_result.has_target

\* C34: the op and the target entity with which a compute-picker result is
\* applied are those of the request whose compute produced the result
C34_ResultCarriesItsRequest ==
    [][AppliesResult =>
          /\ picker_result.op = picker_result.dispatched_op
          /\ picker_result.target = picker_result.dispatched_target]_vars

\* the part of C34 that holds: the splat states a result carries are those
\* the compute of the last extracted request wrote
ResultOfSomeDispatch ==
    [][AppliesResult => picker_result.dispatched_target \in Targets]_vars

\* a result computed for a request for F is applied with the target of an
\* earlier request for E
AppliedWithEarlierTarget ==
    /\ ppc = "apply" /\ picker_result.ready /\ ~picker_result.applied
    /\ picker_result.target = "E" /\ picker_result.dispatched_target = "F"

\* C36: a compute-picker result for a target entity changes only that
\* entity's SplatSelectionState: a result for F leaves the states of E, which
\* has as many splats as F, as they are
C36_OnlyTargetChanges ==
    [][(AppliesResult /\ picker_result.target # "E") => sel' = sel]_vars

\* the part of C36 that holds: a result without a target changes no state
UntargetedResultChangesNothing ==
    [][(ApplyStep /\ ~picker_result.has_target) => sel' = sel]_vars

\* a result for F has changed the states of E
OtherEntityChanged ==
    /\ ppc = "extract" /\ picker_result.applied /\ picker_result.target = "F"
    /\ last_op = "apply_picker_results"
    /\ \E i \in DOMAIN sel.states : sel.states[i] = SELECTED

\* execute_selection_compute dispatches the compute of the extracted request
Dispatches ==
    /\ render_pc = "execute" /\ render_pc' = "idle"
    /\ extracted_request.active /\ ~extracted_request'.active

\* C37: the selection compute dispatched for a request runs with a bind group
\* built from the buffers that currently belong to the request's target
C37_ComputeReadsTargetBuffers ==
    [][Dispatches => render_state.bind_group = extracted_request.target]_vars

\* the part of C37 that holds: a bind group built in the frame of the dispatch
\* is built for the target of the request
BuiltForTarget ==
    [][(render_pc = "bind_groups" /\ render_state.bind_group = "none"
          /\ render_state'.bind_group # "none")
        => render_state'.bind_group = extracted_request.target]_vars

\* the compute of a request for F is about to run with the bind group of E
ComputeWithOtherEntity ==
    /\ render_pc = "execute" /\ extracted_request.active
    /\ extracted_request.target = "F" /\ render_state.bind_group = "E"

\* the compute of a request for E is about to run with dropped buffers
ComputeWithDroppedBuffers ==
    /\ render_pc = "execute" /\ extracted_request.active
    /\ extracted_request.target = "E" /\ render_state.bind_group = "dropped"

(***************************************************************************)
(* Claims about the end of a compute-picker request                        *)
(***************************************************************************)
\* the pick state machine is in Idle
PickerIdle == ~picker_request.active /\ ~picker_pending.some

\* C40: under fair scheduling of the frames every activated compute-picker
\* request returns to Idle in the end, with a target without splats too
C40_RequestReturnsToIdle == picker_request.active ~> PickerIdle

\* the part of C40 that holds: unless requests for an entity without splats
\* go on being extracted, an activated request returns to Idle
RequestWithSplatsReturnsToIdle ==
    []<>(extracted_request.active /\ extracted_request.num_splats = 0)
       \/ (picker_request.active ~> PickerIdle)

\* a request for an entity without splats is extracted and its compute is
\* not dispatched
EmptyRequestNotDispatched ==
    /\ render_pc = "idle" /\ picker_request.active /\ picker_request.num_splats = 0
    /\ extracted_request.active /\ extracted_request.num_splats = 0
    /\ render_state.bind_group = "none"

(***************************************************************************)
(* Claims about the frames of a pick-pass request                          *)
(***************************************************************************)
\* C35: one activation of a pick request leads to at most one application of
\* its result, for every interleaving of main-world and render frames
C35_AppliedAtMostOnce ==
    [][PickApplyStep => pick_result.id # pick_request.applied]_vars

\* the part of C35 that holds: a result is applied for a request that was
\* active when it was extracted, and results are applied in the order of
\* the requests
AppliedInOrder ==
    [][PickApplyStep => /\ pick_result.id >= 1
                        /\ pick_result.id >= pick_request.applied]_vars

\* the result of a request that is not active any more, applied once, is
\* ready for a second application
SecondApplicationReady ==
    /\ pick_pc.main = "apply" /\ pick_result.ready
    /\ ~pick_request.active /\ pick_result.id = pick_request.applied

\* C38: when no pick request is active, the render node records no pick pass
\* and no copy: after a request has been applied, pick_active is false in
\* the render world until a new request is extracted
C38_NoPickPassWhenIdle ==
    (pick_pc.render = "node" /\ pick_target.some /\ pick_target.pick_active)
       => pick_extracted.active

\* the part of C38 that holds: without an active extracted request nothing
\* is read back
NoReadbackWhenIdle ==
    [][(pick_pc.render = "cleanup" /\ pick_pc'.render = "idle"
          /\ ~pick_extracted.active)
         => pick_pending' = pick_pending]_vars

\* the node is about to record the pick pass of a request that was applied
PickPassOfAppliedRequest ==
    /\ pick_pc.render = "node" /\ pick_target.some /\ pick_target.pick_active
    /\ ~pick_extracted.active /\ ~pick_request.active
    /\ pick_request.applied = pick_target.id

(***************************************************************************)
(* Claims about the draw of a frame that skips the sort                    *)
(***************************************************************************)
\* the node skips cull and sort of the entity although the cull pipeline is
\* compiled, that is skip_sorting holds, and the entity is drawn
SkippedAndDrawn ==
    /\ gpu_pc.at = "node" /\ gpu_pc'.at = "draw"
    /\ cull_ready /\ pipeline_ready(entity.pipeline_id)

\* C39: whenever skip_sort holds for a frame and an entity is drawn, its
\* visible_indices and instance_count were produced by a cull and a complete
\* radix sort, all twelve dispatches, that were executed for that entity
C39_SkippedFrameDrawsSorted ==
    [][SkippedAndDrawn => (sort_in.culled /\ sort_in.complete)]_vars

\* the part of C39 that holds: a frame that skips the sort of an entity
\* writes none of the entity's buffers
SkippedFrameKeepsBuffers ==
    [][SkippedAndDrawn => gpu' = gpu]_vars

\* the draw of a skipped frame is next for an entity that was never culled
NeverCulledDrawn ==
    /\ gpu_pc.at = "draw" /\ gpu_pc.pass = 0
    /\ cull_ready /\ pipeline_ready(entity.pipeline_id)
    /\ ~sort_in.culled

\* the draw of a skipped frame is next for an entity whose last cull was
\* followed by a radix sort with passes that were not dispatched
PartlySortedDrawn ==
    /\ gpu_pc.at = "draw" /\ gpu_pc.pass = 0
    /\ cull_ready /\ pipeline_ready(entity.pipeline_id)
    /\ sort_in.culled /\ ~sort_in.complete /\ radix_pipelines = RadixStages

====
